---- MODULE Spec2Model ----
(***************************************************************************)
(* A model of the ram_concept client library: the bracket tokenizer        *)
(* (bracket_parser.py), the property dispatcher (add_property.py, data.py) *)
(* and the bulk add of point loads (force_loading_layer.py, cad_layer.py). *)
(*                                                                         *)
(* Strings are sequences of characters; the two delimiters are the         *)
(* one-character strings "[" and "]", every other element of a sequence is *)
(* an ordinary character.  Indices are the 0-based indices of the source.  *)
(***************************************************************************)
EXTENDS Integers, Sequences, FiniteSets, TLC

\* ------------------------------------------------------------------------
\* Bounds of the model
\* ------------------------------------------------------------------------

\* longest parse string given to a BracketParser
MaxLen == 6

\* ------------------------------------------------------------------------
\* Strings
\* ------------------------------------------------------------------------

START_TAG == "["

END_TAG == "]"

\* sys.maxsize stands for "no start tag": any value above every index
maxsize == 2147483647

\* the characters parse strings are drawn from
Alphabet == {START_TAG, END_TAG, "A"}

RECURSIVE StringsOfLen(_)
StringsOfLen(n) ==
    IF n = 0 THEN {<<>>}
    ELSE {Append(s, c) : s \in StringsOfLen(n - 1), c \in Alphabet}

ParseStrings == UNION {StringsOfLen(n) : n \in 0..MaxLen}

Min(a, b) == IF a < b THEN a ELSE b

Max(a, b) == IF a > b THEN a ELSE b

\* str.find(ch, start): the least index >= start holding ch, or -1
Find(s, ch, start) ==
    LET hits == {i \in Max(start, 0)..(Len(s) - 1) : s[i + 1] = ch}
    IN  IF hits = {} THEN -1 ELSE CHOOSE i \in hits : \A j \in hits : i <= j

\* an index of a slice, as Python clamps it (negative counts from the end)
SliceIndex(s, i) == IF i < 0 THEN Max(Len(s) + i, 0) ELSE Min(i, Len(s))

\* s[a:b]
Slice(s, a, b) == SubSeq(s, SliceIndex(s, a) + 1, SliceIndex(s, b))

\* ------------------------------------------------------------------------
\* BracketParser: the pure parts
\* ------------------------------------------------------------------------

\* the condition asserted on entry of matching_end_tag_index, and
\* (as find(START_TAG, pos) == pos) by next_token and skip_token
at_start_tag(s, i) == Slice(s, i, i + 1) = <<START_TAG>>

\* matching_scan with a start tag not raising the nesting level
RECURSIVE matching_scan_first_end(_, _, _)
matching_scan_first_end(s, current_index, nesting_level) ==
    LET start_tag_found == Find(s, START_TAG, current_index)
        end_tag_index == Find(s, END_TAG, current_index)
        start_tag_index == IF start_tag_found = -1 THEN maxsize ELSE start_tag_found
    IN  IF end_tag_index = -1 THEN -1
        ELSE IF start_tag_index < end_tag_index
             THEN matching_scan_first_end(s, start_tag_index + 1, nesting_level)
             ELSE IF nesting_level - 1 = 0
                  THEN end_tag_index
                  ELSE matching_scan_first_end(s, end_tag_index + 1, nesting_level - 1)

RECURSIVE matching_scan(_, _, _)
matching_scan(s, current_index, nesting_level) ==
    LET start_tag_found == Find(s, START_TAG, current_index)
        end_tag_index == Find(s, END_TAG, current_index)
        start_tag_index == IF start_tag_found = -1 THEN maxsize ELSE start_tag_found
    IN  IF end_tag_index = -1 THEN -1
        ELSE IF start_tag_index < end_tag_index
             THEN matching_scan(s, start_tag_index + 1, nesting_level + 1)
             ELSE IF nesting_level - 1 = 0
                  THEN end_tag_index
                  ELSE matching_scan(s, end_tag_index + 1, nesting_level - 1)

\* matching_end_tag_index scanning from the start tag itself
matching_end_tag_index_from_tag(s, start_tag_index) ==
    matching_scan(s, start_tag_index, 1)

\* the scan of matching_end_tag_index (its entry assertion is at_start_tag)
matching_end_tag_index(s, start_tag_index) ==
    matching_scan(s, start_tag_index + 1, 1)

\* valid_loop going on from the next start tag wherever it is
RECURSIVE valid_loop_gaps(_, _)
valid_loop_gaps(s, start_tag_index) ==
    LET end_tag_index == matching_end_tag_index(s, start_tag_index)
        expected_start_tag_index == end_tag_index + 1
    IN  IF end_tag_index = -1 THEN FALSE
        ELSE IF expected_start_tag_index >= Len(s) THEN TRUE
        ELSE IF Find(s, START_TAG, expected_start_tag_index) = -1
             THEN FALSE
             ELSE valid_loop_gaps(s, Find(s, START_TAG, expected_start_tag_index))

RECURSIVE valid_loop(_, _)
valid_loop(s, start_tag_index) ==
    LET end_tag_index == matching_end_tag_index(s, start_tag_index)
        expected_start_tag_index == end_tag_index + 1
    IN  IF end_tag_index = -1 THEN FALSE
        ELSE IF expected_start_tag_index >= Len(s) THEN TRUE
        ELSE IF Find(s, START_TAG, expected_start_tag_index) # expected_start_tag_index
             THEN FALSE
             ELSE valid_loop(s, expected_start_tag_index)

\* is_valid_parse_string looking at the first character only
is_valid_first_tag_only(s) ==
    IF Len(s) = 0 THEN TRUE
    ELSE Find(s, START_TAG, 0) = 0

is_valid_parse_string(s) ==
    IF Len(s) = 0 THEN TRUE
    ELSE IF Find(s, START_TAG, 0) # 0 THEN FALSE
    ELSE valid_loop(s, 0)

\* ------------------------------------------------------------------------
\* BracketParser: the operations on a parser (parse_string, current_position)
\* Each returns its outcome: the error raised ("none" when it returns),
\* the value returned and the position it leaves.
\* ------------------------------------------------------------------------

NoTokens == <<>>

Outcome(e, f, n, tok, toks, pos) ==
    [err |-> e, flag |-> f, num |-> n, token |-> tok, tokens |-> toks, pos |-> pos]

has_next_token(s, pos) ==
    IF Len(s) - pos = 0 THEN Outcome("none", FALSE, 0, <<>>, NoTokens, pos)
    ELSE IF Find(s, START_TAG, pos) # pos
         THEN Outcome("NotAtStartTag", FALSE, 0, <<>>, NoTokens, pos)
    ELSE IF matching_end_tag_index(s, pos) = -1
         THEN Outcome("MissingEndTag", FALSE, 0, <<>>, NoTokens, pos)
    ELSE Outcome("none", TRUE, 0, <<>>, NoTokens, pos)

\* next_token_string keeping the start tag
next_token_string_with_tag(s, start_tag_index, end_tag_index) ==
    Slice(s, start_tag_index, end_tag_index)

\* the bracketed string next_token extracts
next_token_string(s, start_tag_index, end_tag_index) ==
    Slice(s, start_tag_index + 1, end_tag_index)

next_token(s, pos, asserts) ==
    LET end_tag_index == matching_end_tag_index(s, pos)
    IN  IF asserts /\ pos # Find(s, START_TAG, pos)
        THEN Outcome("AssertionError", FALSE, 0, <<>>, NoTokens, pos)
        ELSE IF asserts /\ ~(end_tag_index > -1)
        THEN Outcome("AssertionError", FALSE, 0, <<>>, NoTokens, pos)
        ELSE Outcome("none", FALSE, 0, next_token_string(s, pos, end_tag_index),
                     NoTokens, end_tag_index + 1)

\* skip_token asserting the end tag as next_token does
skip_token_asserting(s, pos, asserts) ==
    LET end_tag_index == matching_end_tag_index(s, pos)
    IN  IF asserts /\ pos # Find(s, START_TAG, pos)
        THEN Outcome("AssertionError", FALSE, 0, <<>>, NoTokens, pos)
        ELSE IF asserts /\ ~(end_tag_index > -1)
        THEN Outcome("AssertionError", FALSE, 0, <<>>, NoTokens, pos)
        ELSE Outcome("none", TRUE, 0, <<>>, NoTokens, end_tag_index + 1)

skip_token(s, pos, asserts) ==
    LET end_tag_index == matching_end_tag_index(s, pos)
    IN  IF asserts /\ pos # Find(s, START_TAG, pos)
        THEN Outcome("AssertionError", FALSE, 0, <<>>, NoTokens, pos)
        ELSE IF end_tag_index <= -1
        THEN Outcome("none", FALSE, 0, <<>>, NoTokens, pos)
        ELSE Outcome("none", TRUE, 0, <<>>, NoTokens, end_tag_index + 1)

\* the scan of count_remaining_tokens; the position is restored only after
\* the loop has ended normally
RECURSIVE count_loop(_, _, _, _, _)
count_loop(s, pos, asserts, token_count, saved_position) ==
    LET h == has_next_token(s, pos)
    IN  IF h.err # "none" THEN Outcome(h.err, FALSE, 0, <<>>, NoTokens, pos)
        ELSE IF h.flag
        THEN count_loop(s, skip_token(s, pos, asserts).pos, asserts,
                        token_count + 1, saved_position)
        ELSE Outcome("none", FALSE, token_count, <<>>, NoTokens, saved_position)

count_remaining_tokens(s, pos, asserts) == count_loop(s, pos, asserts, 0, pos)

\* the loop of parse over a fresh parser
RECURSIVE parse_loop(_, _, _, _)
parse_loop(s, pos, asserts, tokens) ==
    LET h == has_next_token(s, pos)
        t == next_token(s, pos, asserts)
    IN  IF h.err # "none" THEN Outcome(h.err, FALSE, 0, <<>>, tokens, pos)
        ELSE IF ~h.flag THEN Outcome("none", FALSE, 0, <<>>, tokens, pos)
        ELSE IF t.err # "none" THEN Outcome(t.err, FALSE, 0, <<>>, tokens, pos)
        ELSE parse_loop(s, t.pos, asserts, Append(tokens, t.token))

parse(s, asserts) ==
    IF ~is_valid_parse_string(s)
    THEN Outcome("FormatError", FALSE, 0, <<>>, NoTokens, 0)
    ELSE parse_loop(s, 0, asserts, NoTokens)

\* ------------------------------------------------------------------------
\* Commands and property values
\* A value or a command is a sequence whose elements are the delimiters and
\* runs of ordinary characters ("SET_PROP_USER", "1.5", ...).
\* ------------------------------------------------------------------------

\* "[" + x + "]"
Tok(x) == <<START_TAG>> \o x \o <<END_TAG>>

\* the answers of the Concept process to a command: "ok" is a
\* [SUCCESS][..] response, "fail" a [FAILURE][..] response or a transport
\* fault, either of which Concept._command raises
Responses == {"ok", "fail"}

\* the full command of Data._command
with_target(uid, cmd) ==
    Tok(<<"WITH_TARGET">>) \o Tok(<<ToString(uid)>>) \o Tok(cmd)

\* what a step of a call leaves: the error raised ("none" if it returned),
\* the commands it handed to the transport, and the values it passed to
\* Data._set_property (none or one)
R(e, sent, enc) == [err |-> e, sent |-> sent, encoded |-> enc]

\* _raise_if_invalid_string_property_value checking the start tag only
invalid_string_value_start_tag_only(value) ==
    IF \E i \in DOMAIN value : value[i] = START_TAG THEN "InvalidValue"
    ELSE "none"

raise_if_invalid_string_property_value(value) ==
    IF \E i \in DOMAIN value : value[i] = START_TAG THEN "InvalidValue"
    ELSE IF \E i \in DOMAIN value : value[i] = END_TAG THEN "InvalidValue"
    ELSE "none"

set_property_raise_if_read_only(read_only) ==
    IF read_only THEN "ReadOnly" ELSE "none"

\* Data._get_property: one command, whatever the answer
get_property(uid, property_name, units, resp) ==
    R(IF resp = "ok" THEN "none" ELSE "Remote",
      <<with_target(uid, Tok(<<IF units = "Internal" THEN "GET_PROP_INTERNAL"
                                ELSE "GET_PROP_USER">>)
                         \o Tok(<<property_name>>))>>,
      <<>>)

\* Data._set_property
set_property(uid, property_name, value, units, resp) ==
    IF raise_if_invalid_string_property_value(value) # "none"
    THEN R(raise_if_invalid_string_property_value(value), <<>>, <<value>>)
    ELSE R(IF resp = "ok" THEN "none" ELSE "Remote",
           <<with_target(uid, Tok(<<IF units = "Internal" THEN "SET_PROP_INTERNAL"
                                     ELSE "SET_PROP_USER">>)
                              \o Tok(<<property_name>>) \o Tok(value))>>,
           <<value>>)

\* float values given to the API: three numbers, the two sentinels and an
\* object float() does not accept
FloatInputs == {"0.0", "1.5", "max", "-max", "not a float"}

\* _API_float_to_user_str: the string, or <<>> with the error raised
API_float_to_user_str(value) ==
    IF value = "not a float" THEN [err |-> "NotAFloat", str |-> <<>>]
    ELSE IF value = "max" THEN [err |-> "none", str |-> <<"infinite">>]
    ELSE IF value = "-max" THEN [err |-> "none", str |-> <<"-infinite">>]
    ELSE [err |-> "none", str |-> <<value>>]

IntInputs == {"7", "not an int"}

API_int_to_user_str(value) ==
    IF value = "not an int" THEN [err |-> "NotAnInt", str |-> <<>>]
    ELSE [err |-> "none", str |-> <<value>>]

API_bool_to_user_str(value) == IF value THEN <<"True">> ELSE <<"False">>

set_string_property(uid, property_name, value, resp) ==
    set_property(uid, property_name, value, "Internal", resp)

set_float_property(uid, property_name, value, resp) ==
    IF API_float_to_user_str(value).err # "none"
    THEN R(API_float_to_user_str(value).err, <<>>, <<>>)
    ELSE set_property(uid, property_name, API_float_to_user_str(value).str, "User", resp)

set_int_property(uid, property_name, value, resp) ==
    IF API_int_to_user_str(value).err # "none"
    THEN R(API_int_to_user_str(value).err, <<>>, <<>>)
    ELSE set_property(uid, property_name, API_int_to_user_str(value).str, "Internal", resp)

set_bool_property(uid, property_name, value, resp) ==
    set_property(uid, property_name, API_bool_to_user_str(value), "Internal", resp)

\* values given to a Data property: None, a Data of the required class in
\* this model, a Data of another class, a Data of another model
DataInputs == {"None", "ok", "wrong class", "other model"}

\* the uid of the Data given to a Data property
ReferencedUid == 3

set_data_property(uid, property_name, value, resp) ==
    IF value = "None" THEN set_property(uid, property_name, <<"0">>, "Internal", resp)
    ELSE IF value = "wrong class" THEN R("WrongType", <<>>, <<>>)
    ELSE IF value = "other model" THEN R("OtherModel", <<>>, <<>>)
    ELSE set_property(uid, property_name, <<ToString(ReferencedUid)>>, "Internal", resp)

\* values given to a Point2D property: two points and an object of another type
PointInputs == {<<"0.0", "1.5">>, <<"1.5", "1.5">>, <<>>}

\* Point2D.to_bracket_string
to_bracket_string(point) == Tok(<<point[1]>>) \o Tok(<<point[2]>>)

set_point2D_property(uid, property_name, value, resp) ==
    IF Len(value) # 2 THEN R("WrongType", <<>>, <<>>)
    ELSE set_property(uid, property_name, to_bracket_string(value), "User", resp)

\* ------------------------------------------------------------------------
\* The setters the property dispatcher generates (add_property.py)
\* ------------------------------------------------------------------------

\* step a, and step b after it unless a raised
Then(a, b) ==
    IF a.err # "none" THEN a
    ELSE R(b.err, a.sent \o b.sent, a.encoded \o b.encoded)

Raise(e) == R(e, <<>>, <<>>)

Pass == R("none", <<>>, <<>>)

ReadOnlyCheck(read_only) == Raise(set_property_raise_if_read_only(read_only))

string_property_setter(read_only, uid, name, value, resp) ==
    Then(ReadOnlyCheck(read_only), set_string_property(uid, name, value, resp))

float_property_setter(read_only, uid, name, value, resp) ==
    Then(ReadOnlyCheck(read_only), set_float_property(uid, name, value, resp))

int_property_setter(read_only, uid, name, value, resp) ==
    Then(ReadOnlyCheck(read_only), set_int_property(uid, name, value, resp))

bool_property_setter(read_only, uid, name, value, resp) ==
    Then(ReadOnlyCheck(read_only), set_bool_property(uid, name, value, resp))

\* the bool-as-string properties declared: name, true_value, false_value
BoolStringProperties ==
    {<<"EcCalc", "Code", "UserEc">>, <<"SupportSet", "below", "above">>}

bool_string_property_setter(read_only, uid, decl, value, resp) ==
    Then(ReadOnlyCheck(read_only),
         set_string_property(uid, decl[1],
                             IF value THEN <<decl[2]>> ELSE <<decl[3]>>, resp))

data_property_setter(read_only, uid, name, value, resp) ==
    Then(ReadOnlyCheck(read_only), set_data_property(uid, name, value, resp))

no_none_data_property_setter(read_only, uid, name, value, resp) ==
    Then(ReadOnlyCheck(read_only),
         IF value = "None" THEN Raise("NoneNotAllowed")
         ELSE set_data_property(uid, name, value, resp))

\* BeamBehavior, an enum over strings
BeamBehaviorValues == {"two-way slab", "no-torsion two-way slab", "custom"}

\* values given to an enum property: the members and an object of another type
EnumStringInputs == BeamBehaviorValues \cup {"not an enum"}

enum_string_property_setter(read_only, uid, name, value, resp) ==
    Then(ReadOnlyCheck(read_only),
         IF value \notin BeamBehaviorValues THEN Raise("WrongType")
         ELSE set_string_property(uid, name, <<value>>, resp))

\* ElevationReference, an enum over ints (ABSOLUTE .. ABOVE_MID_DEPTH)
ElevationReferenceValues == {"1", "2", "3", "4", "5", "6"}

EnumIntInputs == ElevationReferenceValues \cup {"not an enum"}

enum_int_property_setter(read_only, uid, name, value, resp) ==
    Then(ReadOnlyCheck(read_only),
         IF value \notin ElevationReferenceValues THEN Raise("WrongType")
         ELSE set_int_property(uid, name, value, resp))

\* the setter of _point_property: it makes no read-only check
point_property_setter(read_only, uid, name, value, resp) ==
    set_point2D_property(uid, name, value, resp)

\* Beam._has_custom_stiffness_behavior: reads the behavior property
has_custom_stiffness_behavior(uid, resp) ==
    get_property(uid, "BeamBehavior", "Internal", resp)

stiffness_property_setter(read_only, uid, name, value, behavior, resp1, resp2) ==
    Then(ReadOnlyCheck(read_only),
         Then(has_custom_stiffness_behavior(uid, resp1),
              IF behavior = "custom"
              THEN set_float_property(uid, name, value, resp2)
              ELSE Raise("NotCustomStiffness")))

\* ------------------------------------------------------------------------
\* LoadingCause, LoadingAnalysisType, LoadingType (loading_layer.py)
\* ------------------------------------------------------------------------

\* the members of LoadingCause by their internal values, in the order of
\* definition (the order LoadingType._to_API tries them in)
LoadingCauses ==
    <<"self_dead", "balance", "hyperstatic", "stressing_dead", "other_dead",
      "live_reducible", "live_unreducible", "live_storage", "live_parking",
      "live_roof", "snow", "other", "temperature", "shrinkage",
      "wind_service_", "wind_ultimate_", "seismic_service_", "seismic_ultimate_">>

CauseSet == {LoadingCauses[k] : k \in DOMAIN LoadingCauses}

\* LoadingCause._to_internal; "other_dead" is written in two runs, so that
\* "other" is a prefix of it as it is in the source
cause_to_internal(cause) ==
    IF cause = "other_dead" THEN <<"other", "_dead">> ELSE <<cause>>

is_changable_in_loading(cause) ==
    cause \notin {"self_dead", "balance", "hyperstatic", "temperature", "shrinkage"}

can_have_transfer_variation(cause) ==
    cause \notin {"self_dead", "hyperstatic", "stressing_dead", "temperature", "shrinkage"}

can_have_indexed_variations(cause) ==
    cause \in {"wind_service_", "wind_ultimate_", "seismic_service_", "seismic_ultimate_"}

can_have_normal_analysis(cause) == cause \notin {"hyperstatic"}

can_have_self_equilibrium_analysis(cause) ==
    cause \notin {"self_dead", "balance", "hyperstatic", "temperature", "shrinkage"}

can_have_hyperstatic_analysis(cause) == cause \in {"hyperstatic"}

\* the members of LoadingAnalysisType by their internal values
AnalysisTypes == {"normal", "hyperstatic", "floating"}

valid_for_loading_cause(analysis_type, cause) ==
    IF analysis_type = "normal" THEN can_have_normal_analysis(cause)
    ELSE IF analysis_type = "hyperstatic" THEN can_have_hyperstatic_analysis(cause)
    ELSE can_have_self_equilibrium_analysis(cause)

\* the largest index of an indexed loading type in the model
MaxIndex == 1

\* LoadingType.__init__: the error it raises, "none" if it accepts
loading_type_init(cause, is_transfer, index) ==
    IF is_transfer /\ ~can_have_transfer_variation(cause) THEN "InvalidLoadingType"
    ELSE IF index # 0 /\ ~can_have_indexed_variations(cause) THEN "InvalidLoadingType"
    ELSE IF index = 0 /\ can_have_indexed_variations(cause) THEN "InvalidLoadingType"
    ELSE IF index < 0 THEN "InvalidLoadingType"
    ELSE "none"

\* the LoadingType values that exist
LoadingTypes ==
    {lt \in [cause : CauseSet, is_transfer : BOOLEAN, index : 0..MaxIndex] :
        loading_type_init(lt.cause, lt.is_transfer, lt.index) = "none"}

\* LoadingType._to_internal
loading_type_to_internal(lt) ==
    cause_to_internal(lt.cause)
    \o (IF lt.index > 0 THEN <<ToString(lt.index)>> ELSE <<>>)
    \o (IF lt.is_transfer THEN <<"_transfer">> ELSE <<>>)

StartsWith(value, prefix) ==
    Len(value) >= Len(prefix) /\ SubSeq(value, 1, Len(prefix)) = prefix

EndsWith(value, suffix) ==
    Len(value) >= Len(suffix)
    /\ SubSeq(value, Len(value) - Len(suffix) + 1, Len(value)) = suffix

\* LoadingType._to_API taking the last cause whose name starts the value
loading_type_to_API_last_cause(value) ==
    LET matching == {k \in DOMAIN LoadingCauses :
                        StartsWith(value, cause_to_internal(LoadingCauses[k]))}
        last_one == CHOOSE k \in matching : \A j \in matching : k >= j
        cause == LoadingCauses[last_one]
        remaining_value == SubSeq(value, Len(cause_to_internal(cause)) + 1, Len(value))
        is_transfer == EndsWith(remaining_value, <<"_transfer">>)
        index_value == IF is_transfer
                       THEN SubSeq(remaining_value, 1, Len(remaining_value) - 1)
                       ELSE remaining_value
        indices == {i \in 1..MaxIndex : index_value = <<ToString(i)>>}
        index == IF Len(index_value) = 0 THEN 0 ELSE CHOOSE i \in indices : TRUE
        none == [cause |-> "", is_transfer |-> FALSE, index |-> 0]
    IN  IF matching = {} THEN [err |-> "UnboundLocalError", lt |-> none]
        ELSE IF Len(index_value) # 0 /\ indices = {}
             THEN [err |-> "UnexpectedLoadingType", lt |-> none]
        ELSE IF loading_type_init(cause, is_transfer, index) # "none"
             THEN [err |-> loading_type_init(cause, is_transfer, index), lt |-> none]
        ELSE [err |-> "none",
              lt |-> [cause |-> cause, is_transfer |-> is_transfer, index |-> index]]

\* LoadingType._to_API: the LoadingType, or the error raised
loading_type_to_API(value) ==
    LET matching == {k \in DOMAIN LoadingCauses :
                        StartsWith(value, cause_to_internal(LoadingCauses[k]))}
        first == CHOOSE k \in matching : \A j \in matching : k <= j
        cause == LoadingCauses[first]
        remaining_value == SubSeq(value, Len(cause_to_internal(cause)) + 1, Len(value))
        is_transfer == EndsWith(remaining_value, <<"_transfer">>)
        index_value == IF is_transfer
                       THEN SubSeq(remaining_value, 1, Len(remaining_value) - 1)
                       ELSE remaining_value
        indices == {i \in 1..MaxIndex : index_value = <<ToString(i)>>}
        index == IF Len(index_value) = 0 THEN 0 ELSE CHOOSE i \in indices : TRUE
        none == [cause |-> "", is_transfer |-> FALSE, index |-> 0]
    IN  IF matching = {} THEN [err |-> "UnboundLocalError", lt |-> none]
        ELSE IF Len(index_value) # 0 /\ indices = {}
             THEN [err |-> "UnexpectedLoadingType", lt |-> none]
        ELSE IF loading_type_init(cause, is_transfer, index) # "none"
             THEN [err |-> loading_type_init(cause, is_transfer, index), lt |-> none]
        ELSE [err |-> "none",
              lt |-> [cause |-> cause, is_transfer |-> is_transfer, index |-> index]]

\* LoadingLayer._get_loading_type: the command, then the decoding of the answer
get_loading_type(uid, answer, resp) ==
    Then(get_property(uid, "LoadingType", "Internal", resp),
         Raise(loading_type_to_API(answer).err))

\* LoadingLayer._set_loading_type without the check of the cause it is given
set_loading_type_to_any(read_only, uid, value, current, current_analysis, resp1, resp2, resp3) ==
    Then(ReadOnlyCheck(read_only),
    Then(get_loading_type(uid, current, resp1),
    Then(IF ~is_changable_in_loading(loading_type_to_API(current).lt.cause)
         THEN Raise("LoadingTypeNotChangable")
         ELSE Pass,
    Then(get_property(uid, "AnalysisType", "Internal", resp2),
    Then(IF ~valid_for_loading_cause(current_analysis, value.cause)
         THEN Raise("AnalysisTypeInvalid")
         ELSE Pass,
         set_string_property(uid, "LoadingType", loading_type_to_internal(value),
                             resp3))))))

\* LoadingLayer._set_loading_type; current and current_analysis are what the
\* process answers to the two reads
set_loading_type(read_only, uid, value, current, current_analysis, resp1, resp2, resp3) ==
    Then(ReadOnlyCheck(read_only),
    Then(get_loading_type(uid, current, resp1),
    Then(IF ~is_changable_in_loading(loading_type_to_API(current).lt.cause)
         THEN Raise("LoadingTypeNotChangable")
         ELSE IF ~is_changable_in_loading(value.cause)
         THEN Raise("LoadingTypeNotChangable")
         ELSE Pass,
    Then(get_property(uid, "AnalysisType", "Internal", resp2),
    Then(IF ~valid_for_loading_cause(current_analysis, value.cause)
         THEN Raise("AnalysisTypeInvalid")
         ELSE Pass,
         set_string_property(uid, "LoadingType", loading_type_to_internal(value),
                             resp3))))))

\* LoadingLayer._set_analysis_type
set_analysis_type(read_only, uid, value, current, resp1, resp2) ==
    Then(ReadOnlyCheck(read_only),
    Then(get_loading_type(uid, current, resp1),
    Then(IF ~valid_for_loading_cause(value, loading_type_to_API(current).lt.cause)
         THEN Raise("AnalysisTypeInvalid")
         ELSE Pass,
         set_string_property(uid, "AnalysisType", <<value>>, resp2))))

\* ------------------------------------------------------------------------
\* Bulk operations (utilities.py, cad_entity.py, cad_layer.py,
\* force_loading_layer.py)
\* ------------------------------------------------------------------------

\* most point loads on the layer in the process
MaxServerEntities == 3

\* most locations given to one add_point_loads
MaxLocations == 2

\* longest string given to a string property
MaxValueLen == 2

\* the uid of the ForceLoadingLayer
LayerUid == 1

\* the uid of the Data whose properties are set
DataUid == 2

\* the uids the process gives to the point loads it creates
EntityUids == (ReferencedUid + 1)..(ReferencedUid + MaxServerEntities)

\* the properties add_point_loads sets, in its order: the attribute and the
\* name of the property behind it
BulkProperties ==
    <<<<"elevation", "LoadElevation">>, <<"Fx", "PLFx">>, <<"Fy", "PLFy">>,
      <<"Fz", "PLFz">>, <<"Mx", "PLMx">>, <<"My", "PLMy">>>>

\* the values of one list given to add_point_loads
BulkValues == {"1.5", "not a float"}

RECURSIVE ListsOfLen(_, _)
ListsOfLen(S, n) ==
    IF n = 0 THEN {<<>>}
    ELSE {Append(s, c) : s \in ListsOfLen(S, n - 1), c \in S}

\* the lists given for one parameter of add_point_loads: None is <<"None">>
BulkLists ==
    {<<"None">>} \cup UNION {ListsOfLen(BulkValues, n) : n \in 0..MaxLocations}

\* CadEntity.delete of the k-th and later entities of a list, the delete
\* command number fail_at being answered with a failure: the outcome and the
\* uids deleted in the process
RECURSIVE delete_all(_, _, _)
delete_all(entity_list, k, fail_at) ==
    IF k > Len(entity_list) THEN [r |-> Pass, deleted |-> {}]
    ELSE LET cmd == <<with_target(entity_list[k], Tok(<<"DELETE">>))>>
             rest == delete_all(entity_list, k + 1, fail_at)
         IN  IF k = fail_at
             THEN [r |-> R("Remote", cmd, <<>>), deleted |-> {}]
             ELSE [r |-> Then(R("none", cmd, <<>>), rest.r),
                   deleted |-> {entity_list[k]} \cup rest.deleted]

\* the loop of _bulk_set from the k-th entity on, the set command number
\* fail_at being answered with a failure
RECURSIVE bulk_set_loop(_, _, _, _, _)
bulk_set_loop(entity_list, property_name, values, k, fail_at) ==
    IF k > Len(entity_list) THEN Pass
    ELSE Then(float_property_setter(FALSE, entity_list[k], property_name, values[k],
                                    IF k = fail_at THEN "fail" ELSE "ok"),
              bulk_set_loop(entity_list, property_name, values, k + 1, fail_at))

\* _bulk_set
bulk_set(entity_list, property_name, values, fail_at) ==
    IF values = <<"None">> THEN Pass
    ELSE IF Len(entity_list) # Len(values) THEN Raise("LengthMismatch")
    ELSE bulk_set_loop(entity_list, property_name, values, 1, fail_at)

\* [0.0] * entity_count
zero_list(entity_count) == [k \in 1..entity_count |-> "0.0"]

\* "values or zero_list": None and the empty list give the zero list
or_zero_list(values, entity_count) ==
    IF values = <<"None">> \/ values = <<>> THEN zero_list(entity_count) ELSE values

\* the list add_point_loads hands to _bulk_set for its prop-th property
bulk_set_argument(prop, values, entity_count) ==
    IF prop = 1 THEN values ELSE or_zero_list(values, entity_count)

\* ------------------------------------------------------------------------
\* State
\* ------------------------------------------------------------------------

VARIABLES
    parse_string,       \* BracketParser._parse_string
    current_position,   \* BracketParser._current_position
    asserts_enabled,    \* whether the interpreter runs assert statements
    last,               \* the last operation on the parser and its outcome
    data_read_only,     \* Data._read_only of the Data whose properties are set
    layer_read_only,    \* Data._read_only of the ForceLoadingLayer
    entities,           \* the uids of the point loads on the layer in the process
    call,               \* the call of the API in progress, or the last one
    transport,          \* the commands that call handed to the transport
    url,                \* whether Concept._url holds a URL (None after shut_down)
    nextRequestId,      \* Concept._nextRequestId
    concept_model,      \* Concept._model: the number of a Model, 0 for None
    model_concept,      \* Model._concept of each Model: "unborn", "bound", "closed"
    log,                \* the RequestId headers posted, in their order
    wire,               \* the commands the last operation posted
    outcome,            \* the last operation on the Concept and how it ended
    process_model,      \* whether the Concept process has a model open
    startup,            \* Concept.start_concept: its position and what it did
    materials,          \* the uids of the materials of each kind in the process
    loading             \* a loading layer in the process and the wrappers of it

pvars == <<parse_string, current_position, asserts_enabled, last>>

dvars == <<data_read_only, layer_read_only, entities, call, transport>>

cvars == <<url, nextRequestId, concept_model, model_concept, log, wire, outcome,
           process_model>>

svars == <<startup>>

mvars == <<materials>>

lvars == <<loading>>

\* what the parser, the setters and the loading layer leave alone
rest == <<cvars, svars, mvars, lvars>>

vars == <<parse_string, current_position, asserts_enabled, last,
          data_read_only, layer_read_only, entities, call, transport,
          url, nextRequestId, concept_model, model_concept, log, wire, outcome,
          process_model, startup, materials, loading>>

\* a call that has returned or raised
Finished(op, read_only, r) ==
    [op |-> op, pc |-> "done", err |-> r.err, encoded |-> r.encoded,
     read_only |-> read_only, n |-> 0, point_loads |-> <<>>, created |-> {},
     prop |-> 0, value_failed |-> FALSE, mismatch |-> FALSE,
     original |-> "none"]

NoCall == Finished("none", FALSE, Pass)

\* no client: the state of the client part while a parser is exercised
NoClient ==
    /\ data_read_only = FALSE
    /\ layer_read_only = FALSE
    /\ entities = {}
    /\ call = NoCall
    /\ transport = <<>>

\* no parser: the state of the parser part while the client is exercised
NoParser ==
    /\ parse_string = <<>>
    /\ current_position = 0
    /\ asserts_enabled = TRUE
    /\ last = [op |-> "init", before |-> 0, arg |-> 0, err |-> "none",
               flag |-> FALSE, num |-> 0, token |-> <<>>, tokens |-> <<>>]

\* no Concept: the state of the Concept part while another part is exercised
NoConcept ==
    /\ url = FALSE
    /\ nextRequestId = 1
    /\ concept_model = 0
    /\ model_concept = <<>>
    /\ log = <<>>
    /\ wire = <<>>
    /\ outcome = <<>>
    /\ process_model = FALSE

\* no startup in progress
NoStartup == startup = <<>>

\* no materials
NoMaterials == materials = <<>>

NoLoading == loading = <<>>

NoRest == NoConcept /\ NoStartup /\ NoMaterials /\ NoLoading

Called(name, before, arg, o) ==
    [op |-> name, before |-> before, arg |-> arg, err |-> o.err, flag |-> o.flag,
     num |-> o.num, token |-> o.token, tokens |-> o.tokens]

\* BracketParser(parse_string)
ParserInit ==
    /\ parse_string \in ParseStrings
    /\ current_position = 0
    /\ asserts_enabled \in BOOLEAN
    /\ last = Called("init", 0, 0, Outcome("none", FALSE, 0, <<>>, NoTokens, 0))
    /\ NoClient
    /\ NoRest

HasNextToken ==
    LET o == has_next_token(parse_string, current_position)
    IN  /\ last' = Called("has_next_token", current_position, 0, o)
        /\ current_position' = o.pos
        /\ UNCHANGED <<parse_string, asserts_enabled>>
        /\ UNCHANGED <<dvars, rest>>

NextToken ==
    LET o == next_token(parse_string, current_position, asserts_enabled)
    IN  /\ last' = Called("next_token", current_position, 0, o)
        /\ current_position' = o.pos
        /\ UNCHANGED <<parse_string, asserts_enabled>>
        /\ UNCHANGED <<dvars, rest>>

SkipToken ==
    LET o == skip_token(parse_string, current_position, asserts_enabled)
    IN  /\ last' = Called("skip_token", current_position, 0, o)
        /\ current_position' = o.pos
        /\ UNCHANGED <<parse_string, asserts_enabled>>
        /\ UNCHANGED <<dvars, rest>>

CountRemainingTokens ==
    LET o == count_remaining_tokens(parse_string, current_position, asserts_enabled)
    IN  /\ last' = Called("count_remaining_tokens", current_position, 0, o)
        /\ current_position' = o.pos
        /\ UNCHANGED <<parse_string, asserts_enabled>>
        /\ UNCHANGED <<dvars, rest>>

\* BracketParser.is_valid_parse_string(parse_string)
IsValidParseString ==
    /\ last' = Called("is_valid_parse_string", current_position, 0,
                      Outcome("none", is_valid_parse_string(parse_string), 0,
                              <<>>, NoTokens, current_position))
    /\ UNCHANGED <<parse_string, current_position, asserts_enabled>>
    /\ UNCHANGED <<dvars, rest>>

\* BracketParser.matching_end_tag_index(parse_string, i)
MatchingEndTagIndex(i) ==
    /\ last' = Called("matching_end_tag_index", current_position, i,
                      IF asserts_enabled /\ ~at_start_tag(parse_string, i)
                      THEN Outcome("AssertionError", FALSE, 0, <<>>, NoTokens,
                                   current_position)
                      ELSE Outcome("none", FALSE,
                                   matching_end_tag_index(parse_string, i),
                                   <<>>, NoTokens, current_position))
    /\ UNCHANGED <<parse_string, current_position, asserts_enabled>>
    /\ UNCHANGED <<dvars, rest>>

\* BracketParser.parse(parse_string): works on a parser of its own
Parse ==
    /\ last' = Called("parse", current_position, 0,
                      parse(parse_string, asserts_enabled))
    /\ UNCHANGED <<parse_string, current_position, asserts_enabled>>
    /\ UNCHANGED <<dvars, rest>>

ParserNext ==
    \/ HasNextToken
    \/ NextToken
    \/ SkipToken
    \/ CountRemainingTokens
    \/ IsValidParseString
    \/ \E i \in 0..Len(parse_string) : MatchingEndTagIndex(i)
    \/ Parse

ParserSpec == ParserInit /\ [][ParserNext]_vars

\* ------------------------------------------------------------------------
\* What the tokenizer is specified to compute, stated without its scan
\* ------------------------------------------------------------------------

\* opening minus closing delimiters among s[i..j]
Depth(s, i, j) ==
    Cardinality({k \in i..j : s[k + 1] = START_TAG})
    - Cardinality({k \in i..j : s[k + 1] = END_TAG})

\* the least j > i where the depth of s[i..j] is zero, -1 if there is none
BalancedEnd(s, i) ==
    LET js == {j \in (i + 1)..(Len(s) - 1) : Depth(s, i, j) = 0}
    IN  IF js = {} THEN -1 ELSE CHOOSE j \in js : \A k \in js : j <= k

\* s[a..b] is one depth-balanced bracket token
IsToken(s, a, b) ==
    /\ a < b
    /\ s[a + 1] = START_TAG
    /\ Depth(s, a, b) = 0
    /\ \A j \in a..(b - 1) : Depth(s, a, j) > 0

\* s is cut into one or more tokens, with nothing before, between or after
IsTokenConcatenation(s) ==
    /\ Len(s) > 0
    /\ \E inner \in SUBSET (1..(Len(s) - 1)) :
          LET cuts == inner \cup {0, Len(s)}
          IN  \A a \in cuts \ {Len(s)} :
                 LET b == CHOOSE c \in cuts : c > a /\ \A d \in cuts : d > a => c <= d
                 IN  IsToken(s, a, b - 1)

\* the contents of the top-level tokens of s from index i on
RECURSIVE TopLevelTokens(_, _)
TopLevelTokens(s, i) ==
    IF i >= Len(s) \/ s[i + 1] # START_TAG \/ BalancedEnd(s, i) = -1 THEN <<>>
    ELSE <<SubSeq(s, i + 2, BalancedEnd(s, i))>>
         \o TopLevelTokens(s, BalancedEnd(s, i) + 1)

\* every token wrapped in the delimiters, concatenated in order
RECURSIVE Encode(_)
Encode(tokens) ==
    IF tokens = <<>> THEN <<>>
    ELSE <<START_TAG>> \o Head(tokens) \o <<END_TAG>> \o Encode(Tail(tokens))

\* n opening delimiters followed by n closing delimiters
RECURSIVE Repeat(_, _)
Repeat(c, n) == IF n <= 0 THEN <<>> ELSE <<c>> \o Repeat(c, n - 1)

NestedPairs(n) == Repeat(START_TAG, n) \o Repeat(END_TAG, n)

\* ------------------------------------------------------------------------
\* Claims about the tokenizer (checked under ParserSpec)
\* ------------------------------------------------------------------------

\* C1: for every string that is_valid_parse_string accepts, wrapping each
\* token parse returns in "[" and "]" and concatenating them gives the string.
C1_RoundTrip ==
    (last.op = "parse" /\ is_valid_parse_string(parse_string))
        => (last.err = "none" /\ Encode(last.tokens) = parse_string)

C1_Witness ==
    /\ last.op = "parse"
    /\ last.err = "none"
    /\ Len(last.tokens) >= 2
    /\ \E k \in DOMAIN last.tokens : Find(last.tokens[k], START_TAG, 0) # -1

\* C2: from an index holding an opening delimiter, matching_end_tag_index
\* returns the least later index where the depth first reaches zero, and -1
\* exactly when there is none; on "[[X]]" from 0 that is 4.
C2_DepthBalancedMatch ==
    /\ (last.op = "matching_end_tag_index" /\ at_start_tag(parse_string, last.arg))
          => (last.err = "none" /\ last.num = BalancedEnd(parse_string, last.arg))
    /\ matching_end_tag_index(<<"[", "[", "X", "]", "]">>, 0) = 4

C2_Witness ==
    /\ last.op = "matching_end_tag_index"
    /\ at_start_tag(parse_string, last.arg)
    /\ last.num > Find(parse_string, END_TAG, last.arg)
    /\ last.arg > 0

\* C3: is_valid_parse_string accepts exactly the empty string and the
\* concatenations of one or more depth-balanced tokens with nothing before,
\* between or after them.
C3_ValidIffTokenConcatenation ==
    /\ last.op = "is_valid_parse_string"
          => (last.flag <=> (parse_string = <<>> \/ IsTokenConcatenation(parse_string)))
    /\ is_valid_parse_string(<<>>)
    /\ is_valid_parse_string(<<"[", "A", "]">>)
    /\ is_valid_parse_string(<<"[", "A", "]", "[", "B", "]">>)
    /\ ~is_valid_parse_string(<<"[", "A", "]", "[", "B", "]", "e", "x", "t", "r", "a">>)
    /\ ~is_valid_parse_string(<<"A", "]">>)

C3_Witness ==
    /\ last.op = "is_valid_parse_string"
    /\ last.flag
    /\ Len(TopLevelTokens(parse_string, 0)) >= 2

\* C4 as stated: for every n >= 0 the string of n nested pairs parses to
\* exactly one token, whose content is the inner n-1 pairs.
C4_NestedPairsFromZero ==
    \A n \in 0..MaxLen :
        (last.op = "parse" /\ parse_string = NestedPairs(n))
            => (last.err = "none" /\ last.tokens = <<NestedPairs(n - 1)>>)

\* C4 amended: for every n >= 1 the string of n nested pairs parses to
\* exactly one token, whose content is the inner n-1 pairs (for n = 0 the
\* string is empty and parses to no token).
C4_NestedPairs ==
    /\ \A n \in 1..MaxLen :
          (last.op = "parse" /\ parse_string = NestedPairs(n))
              => (last.err = "none" /\ last.tokens = <<NestedPairs(n - 1)>>)
    /\ (last.op = "parse" /\ parse_string = <<>>)
          => (last.err = "none" /\ last.tokens = <<>>)

C4_Witness ==
    /\ last.op = "parse"
    /\ parse_string = NestedPairs(3)
    /\ last.tokens = <<NestedPairs(2)>>

\* C5: parse fails with the format error on every string that
\* is_valid_parse_string rejects, and on every string it accepts returns all
\* the top-level tokens in order, no error of has_next_token or next_token
\* being raised.
C5_ParseValidatesFirst ==
    last.op = "parse"
        => IF is_valid_parse_string(parse_string)
           THEN last.err = "none" /\ last.tokens = TopLevelTokens(parse_string, 0)
           ELSE last.err = "FormatError"

C5_Witness ==
    /\ last.op = "parse"
    /\ last.err = "FormatError"
    /\ has_next_token(parse_string, 0).flag
    /\ Len(parse_string) > 3

\* what C6 says of a call of skip_token
SkipOutcomeIsAFlag ==
    /\ last.err = "none"
    /\ \/ /\ last.flag
          /\ IsToken(parse_string, last.before, current_position - 1)
       \/ /\ ~last.flag
          /\ current_position = last.before

C7_CountIsNonDestructive ==
    last.op = "count_remaining_tokens"
        => /\ current_position = last.before
           /\ last.err = "none"
                 => last.num = Len(TopLevelTokens(parse_string, last.before))

\* ------------------------------------------------------------------------
\* The client: property setters on a Data, and the point loads of a
\* ForceLoadingLayer
\* ------------------------------------------------------------------------

\* a Data wrapper, read-only (as the entities of the ElementLayer are) or not
SetterInit ==
    /\ NoParser
    /\ NoRest
    /\ data_read_only \in BOOLEAN
    /\ layer_read_only = FALSE
    /\ entities = {}
    /\ call = NoCall
    /\ transport = <<>>

\* LoadingLayer.__init__ comparing with "self_dead" only
loading_layer_read_only_self_dead_only(loading_type) ==
    loading_type = <<"self_dead">>

\* LoadingLayer.__init__: the read-only flag of a wrapper of a layer whose
\* LoadingType property reads loading_type
loading_layer_read_only(loading_type) ==
    \/ loading_type = <<"self_dead">>
    \/ loading_type = <<"balance">>
    \/ loading_type = <<"hyperstatic">>

\* the loading types of the ForceLoadingLayer the point loads are added to
ForceLayerTypes ==
    {lt \in LoadingTypes :
        lt.cause \in {"self_dead", "balance", "hyperstatic", "other"} /\ ~lt.is_transfer}

\* a loading layer in the process and the read-only flags of its wrappers
Layer(class, loading_type, analysis_type, wrappers) ==
    [class |-> class, type |-> loading_type, analysis |-> analysis_type,
     wrappers |-> wrappers]

\* a ForceLoadingLayer wrapper, read-only (self_dead, balance, hyperstatic)
\* or not; a read-only layer has a load, as the process has put it there
LayerInit ==
    /\ NoParser
    /\ NoConcept
    /\ NoStartup
    /\ NoMaterials
    /\ \E lt \in ForceLayerTypes :
          loading = Layer("ForceLoadingLayer", loading_type_to_internal(lt),
                          IF lt.cause = "hyperstatic" THEN "hyperstatic" ELSE "normal",
                          <<loading_layer_read_only(loading_type_to_internal(lt))>>)
    /\ data_read_only = FALSE
    /\ layer_read_only = loading.wrappers[1]
    /\ entities = IF layer_read_only THEN {ReferencedUid + 1} ELSE {}
    /\ call = NoCall
    /\ transport = <<>>

\* no call of the API is in progress
Idle == call.pc = "done"

\* a setter runs on the Data and ends
Setter(kind, r) ==
    /\ Idle
    /\ call' = Finished(kind, data_read_only, r)
    /\ transport' = r.sent
    /\ UNCHANGED <<data_read_only, layer_read_only, entities>>
    /\ UNCHANGED <<pvars, rest>>

StringValues == UNION {StringsOfLen(n) : n \in 0..MaxValueLen}

SetStringProperty ==
    \E value \in StringValues, resp \in Responses :
        Setter("string",
               string_property_setter(data_read_only, DataUid, "Name", value, resp))

SetFloatProperty ==
    \E value \in FloatInputs, resp \in Responses :
        Setter("float",
               float_property_setter(data_read_only, DataUid, "Width", value, resp))

SetIntProperty ==
    \E value \in IntInputs, resp \in Responses :
        Setter("int",
               int_property_setter(data_read_only, DataUid, "Priority", value, resp))

SetBoolProperty ==
    \E value \in BOOLEAN, resp \in Responses :
        Setter("bool",
               bool_property_setter(data_read_only, DataUid, "BeamIsMeshedAsSlab",
                                    value, resp))

SetBoolStringProperty ==
    \E decl \in BoolStringProperties, value \in BOOLEAN, resp \in Responses :
        Setter("bool_string",
               bool_string_property_setter(data_read_only, DataUid, decl, value, resp))

SetEnumStringProperty ==
    \E value \in EnumStringInputs, resp \in Responses :
        Setter("enum_string",
               enum_string_property_setter(data_read_only, DataUid, "BeamBehavior",
                                           value, resp))

SetEnumIntProperty ==
    \E value \in EnumIntInputs, resp \in Responses :
        Setter("enum_int",
               enum_int_property_setter(data_read_only, DataUid,
                                        "ElevationReferenceNode0", value, resp))

SetDataProperty ==
    \E value \in DataInputs, resp \in Responses :
        Setter("data",
               data_property_setter(data_read_only, DataUid, "Data", value, resp))

SetNoNoneDataProperty ==
    \E value \in DataInputs, resp \in Responses :
        Setter("no_none_data",
               no_none_data_property_setter(data_read_only, DataUid, "ConcreteMix",
                                            value, resp))

SetPointProperty ==
    \E value \in PointInputs, resp \in Responses :
        Setter("point",
               point_property_setter(data_read_only, DataUid, "LeftPt0", value, resp))

SetStiffnessProperty ==
    \E value \in FloatInputs, behavior \in BeamBehaviorValues,
       resp1 \in Responses, resp2 \in Responses :
        Setter("stiffness",
               stiffness_property_setter(data_read_only, DataUid, "SlabKMr", value,
                                         behavior, resp1, resp2))

\* the causes of the loading types given to and read by the two setters of
\* a LoadingLayer: one that makes the layer read-only, one that cannot be
\* changed, one with indices, and the two where one name starts the other
InputCauses == {"self_dead", "temperature", "wind_service_", "other_dead", "other"}

LoadingTypeInputs == {lt \in LoadingTypes : lt.cause \in InputCauses}

\* what the process answers as the loading type of the layer
LoadingTypeStrings == {loading_type_to_internal(lt) : lt \in LoadingTypeInputs}

\* the answer to the k-th command of a call of which command fail_at fails
Answer(k, fail_at) == IF k = fail_at THEN "fail" ELSE "ok"

SetLoadingType ==
    \E value \in LoadingTypeInputs, current \in LoadingTypeStrings,
       current_analysis \in AnalysisTypes, fail_at \in 0..3 :
        Setter("loading_type",
               set_loading_type(data_read_only, DataUid, value, current,
                                current_analysis, Answer(1, fail_at),
                                Answer(2, fail_at), Answer(3, fail_at)))

SetAnalysisType ==
    \E value \in AnalysisTypes, current \in LoadingTypeStrings, fail_at \in 0..2 :
        Setter("analysis_type",
               set_analysis_type(data_read_only, DataUid, value, current,
                                 Answer(1, fail_at), Answer(2, fail_at)))

\* the locations given to add_point_load
Locations == {<<"0.0", "1.5">>, <<"1.5", "1.5">>}

\* Point2D.to_point_list_bracket_string
to_point_list_bracket_string(point) == Tok(to_bracket_string(point))

\* the uid the process gives to the next entity
NewUid == CHOOSE u \in EntityUids \ entities : \A v \in EntityUids \ entities : u <= v

\* ForceLoadingLayer.add_point_load: the read-only check, then
\* CadLayer._add_cad_entity (NEW_ENTITY_USER, then the GET_TYPE of
\* Model._get_data_from_uid); created holds the uid once the process has it
add_point_load(read_only, layer, location, uid, resp1, resp2) ==
    LET new_entity == with_target(layer, Tok(<<"NEW_ENTITY_USER">>) \o Tok(<<"PointLoad">>)
                                         \o to_point_list_bracket_string(location))
        get_type == Tok(<<"WITH_TARGET">>) \o Tok(<<ToString(uid)>>)
                    \o Tok(Tok(<<"GET_TYPE">>))
    IN  IF read_only THEN [r |-> Raise("ReadOnly"), created |-> {}]
        ELSE IF resp1 = "fail"
        THEN [r |-> R("Remote", <<new_entity>>, <<>>), created |-> {}]
        ELSE IF resp2 = "fail"
        THEN [r |-> R("Remote", <<new_entity, get_type>>, <<>>), created |-> {uid}]
        ELSE [r |-> R("none", <<new_entity, get_type>>, <<>>), created |-> {uid}]

AddPointLoad ==
    /\ Idle
    /\ EntityUids \ entities # {}
    /\ \E location \in Locations, resp1 \in Responses, resp2 \in Responses :
          LET a == add_point_load(layer_read_only, LayerUid, location, NewUid,
                                  resp1, resp2)
          IN  /\ call' = [Finished("add_point_load", layer_read_only, a.r)
                            EXCEPT !.created = a.created]
              /\ transport' = a.r.sent
              /\ entities' = entities \cup a.created
    /\ UNCHANGED <<data_read_only, layer_read_only>>
    /\ UNCHANGED <<pvars, rest>>

\* CadEntity.delete on a PointLoad of the list ForceLoadingLayer.point_loads,
\* which has given it the read-only flag of the layer
DeletePointLoad ==
    /\ Idle
    /\ \E uid \in entities, resp \in Responses :
          LET r == IF layer_read_only THEN Raise("ReadOnly")
                   ELSE R(IF resp = "ok" THEN "none" ELSE "Remote",
                          <<with_target(uid, Tok(<<"DELETE">>))>>, <<>>)
          IN  /\ call' = Finished("delete", layer_read_only, r)
              /\ transport' = r.sent
              /\ entities' = IF r.err = "none" THEN entities \ {uid} ELSE entities
    /\ UNCHANGED <<data_read_only, layer_read_only>>
    /\ UNCHANGED <<pvars, rest>>

\* ForceLoadingLayer.add_point_loads up to the call of _bulk_add
AddPointLoads ==
    /\ Idle
    /\ \E n \in 0..MaxLocations, y_len \in 0..MaxLocations :
          /\ Cardinality(entities) + n <= MaxServerEntities
          /\ call' =
                IF layer_read_only
                THEN Finished("add_point_loads", TRUE, Raise("ReadOnly"))
                ELSE IF y_len # n
                THEN [Finished("add_point_loads", FALSE, Raise("LengthMismatch"))
                        EXCEPT !.n = n, !.mismatch = TRUE]
                ELSE [Finished("add_point_loads", FALSE, Pass)
                        EXCEPT !.pc = IF n = 0 THEN "bulk_set" ELSE "bulk_add",
                               !.n = n, !.prop = 1]
    /\ transport' = <<>>
    /\ UNCHANGED <<data_read_only, layer_read_only, entities>>
    /\ UNCHANGED <<pvars, rest>>

\* one round of the loop of CadLayer._bulk_add: add_point_load on the next
\* location and, if it raises, the except clause: delete() on every entity
\* of the list, then the error goes on (the error of a failing delete
\* instead, which ends the clause)
BulkAddStep ==
    /\ call.pc = "bulk_add"
    /\ \E location \in Locations, resp1 \in Responses, resp2 \in Responses,
          fail_at \in 0..Len(call.point_loads) :
          LET a == add_point_load(layer_read_only, LayerUid, location, NewUid,
                                  resp1, resp2)
              undo == delete_all(call.point_loads, 1, fail_at)
          IN  IF a.r.err = "none"
              THEN /\ call' = [call EXCEPT
                                 !.point_loads = Append(@, NewUid),
                                 !.created = @ \cup a.created,
                                 !.pc = IF Len(call.point_loads) + 1 = call.n
                                        THEN "bulk_set" ELSE "bulk_add"]
                   /\ transport' = transport \o a.r.sent
                   /\ entities' = entities \cup a.created
              ELSE /\ call' = [call EXCEPT
                                 !.created = @ \cup a.created,
                                 !.original = a.r.err,
                                 !.err = IF undo.r.err # "none" THEN undo.r.err
                                         ELSE a.r.err,
                                 !.pc = "done"]
                   /\ transport' = transport \o a.r.sent \o undo.r.sent
                   /\ entities' = (entities \cup a.created) \ undo.deleted
    /\ UNCHANGED <<data_read_only, layer_read_only>>
    /\ UNCHANGED <<pvars, rest>>

\* one _bulk_set of add_point_loads and, if it raises, the except clause:
\* delete() on every point load of the call, then the error goes on (the
\* error of a failing delete instead, which ends the clause)
BulkSetStep ==
    /\ call.pc = "bulk_set"
    /\ \E values \in BulkLists, fail_set \in 0..call.n, fail_del \in 0..call.n :
          LET s == bulk_set(call.point_loads, BulkProperties[call.prop][2],
                            bulk_set_argument(call.prop, values, call.n), fail_set)
              undo == delete_all(call.point_loads, 1, fail_del)
          IN  IF s.err = "none"
              THEN /\ call' = [call EXCEPT
                                 !.prop = @ + 1,
                                 !.mismatch = @ \/ (values # <<"None">>
                                                      /\ Len(values) # call.n),
                                 !.pc = IF call.prop = Len(BulkProperties)
                                        THEN "done" ELSE "bulk_set"]
                   /\ transport' = transport \o s.sent
                   /\ entities' = entities
              ELSE /\ call' = [call EXCEPT
                                 !.value_failed = TRUE,
                                 !.original = s.err,
                                 !.mismatch = @ \/ (values # <<"None">>
                                                      /\ Len(values) # call.n),
                                 !.err = IF undo.r.err # "none" THEN undo.r.err
                                         ELSE s.err,
                                 !.pc = "done"]
                   /\ transport' = transport \o s.sent \o undo.r.sent
                   /\ entities' = entities \ undo.deleted
    /\ UNCHANGED <<data_read_only, layer_read_only>>
    /\ UNCHANGED <<pvars, rest>>

\* the properties of a ForceLoad and of a PointLoad that are set
LoadProperties == {"LoadElevation", "PLFx"}

\* a float property is set on a load of the list ForceLoadingLayer.point_loads,
\* line_loads or area_loads, which has given it the read-only flag of the layer
SetLoadProperty ==
    /\ Idle
    /\ \E uid \in entities, name \in LoadProperties, value \in BulkValues,
          resp \in Responses :
          LET r == float_property_setter(layer_read_only, uid, name, value, resp)
          IN  /\ call' = Finished("set_load_property", layer_read_only, r)
              /\ transport' = r.sent
    /\ UNCHANGED <<data_read_only, layer_read_only, entities>>
    /\ UNCHANGED <<pvars, rest>>

\* LineSegment2D.to_point_list_bracket_string of the segment between the
\* two locations
line_segment_bracket_string ==
    Tok(to_bracket_string(<<"0.0", "1.5">>)) \o Tok(to_bracket_string(<<"1.5", "1.5">>))

\* Polygon2D.to_point_list_bracket_string of a triangle
polygon_bracket_string ==
    Tok(to_bracket_string(<<"0.0", "1.5">>)) \o Tok(to_bracket_string(<<"1.5", "1.5">>))
    \o Tok(to_bracket_string(<<"1.5", "0.0">>))

\* ForceLoadingLayer.add_line_load and add_area_load: the read-only check,
\* then CadLayer._add_cad_entity with the type and the location
add_load(read_only, layer, type, location, uid, resp1, resp2) ==
    LET new_entity == with_target(layer, Tok(<<"NEW_ENTITY_USER">>) \o Tok(<<type>>)
                                         \o location)
        get_type == Tok(<<"WITH_TARGET">>) \o Tok(<<ToString(uid)>>)
                    \o Tok(Tok(<<"GET_TYPE">>))
    IN  IF read_only THEN [r |-> Raise("ReadOnly"), created |-> {}]
        ELSE IF resp1 = "fail"
        THEN [r |-> R("Remote", <<new_entity>>, <<>>), created |-> {}]
        ELSE IF resp2 = "fail"
        THEN [r |-> R("Remote", <<new_entity, get_type>>, <<>>), created |-> {uid}]
        ELSE [r |-> R("none", <<new_entity, get_type>>, <<>>), created |-> {uid}]

AddLoad(op, type, location) ==
    /\ Idle
    /\ EntityUids \ entities # {}
    /\ \E resp1 \in Responses, resp2 \in Responses :
          LET a == add_load(layer_read_only, LayerUid, type, location, NewUid,
                            resp1, resp2)
          IN  /\ call' = [Finished(op, layer_read_only, a.r)
                            EXCEPT !.created = a.created]
              /\ transport' = a.r.sent
              /\ entities' = entities \cup a.created
    /\ UNCHANGED <<data_read_only, layer_read_only>>
    /\ UNCHANGED <<pvars, rest>>

AddLineLoad == AddLoad("add_line_load", "LineLoad", line_segment_bracket_string)

AddAreaLoad == AddLoad("add_area_load", "AreaLoad", polygon_bracket_string)

\* ForceLoadingLayer.delete: the read-only check, then Data._delete
layer_delete(read_only, layer, resp) ==
    Then(Raise(set_property_raise_if_read_only(read_only)),
         R(IF resp = "ok" THEN "none" ELSE "Remote",
           <<with_target(layer, Tok(<<"DELETE">>))>>, <<>>))

\* delete() on the layer; once the process has deleted it the layer and
\* its loads are gone and the wrapper is of no use
DeleteLayer ==
    /\ Idle
    /\ \E resp \in Responses :
          LET r == layer_delete(layer_read_only, LayerUid, resp)
          IN  /\ call' = [Finished("delete_layer", layer_read_only, r)
                            EXCEPT !.pc = IF r.err = "none" THEN "gone" ELSE "done"]
              /\ transport' = r.sent
              /\ entities' = IF r.err = "none" THEN {} ELSE entities
    /\ UNCHANGED <<data_read_only, layer_read_only>>
    /\ UNCHANGED <<pvars, rest>>

SetterNext ==
    \/ SetStringProperty
    \/ SetFloatProperty
    \/ SetIntProperty
    \/ SetBoolProperty
    \/ SetBoolStringProperty
    \/ SetEnumStringProperty
    \/ SetEnumIntProperty
    \/ SetDataProperty
    \/ SetNoNoneDataProperty
    \/ SetPointProperty
    \/ SetStiffnessProperty
    \/ SetLoadingType
    \/ SetAnalysisType

SetterSpec == SetterInit /\ [][SetterNext]_vars

LayerNext ==
    \/ AddPointLoad
    \/ DeletePointLoad
    \/ AddPointLoads
    \/ BulkAddStep
    \/ BulkSetStep
    \/ AddLineLoad
    \/ AddAreaLoad
    \/ SetLoadProperty
    \/ DeleteLayer

LayerSpec == LayerInit /\ [][LayerNext]_vars

\* ------------------------------------------------------------------------
\* Properties of the setters and of the bulk operations
\* ------------------------------------------------------------------------

\* the setter kinds of the property dispatcher and of LoadingLayer
SetterKinds ==
    {"string", "float", "int", "bool", "bool_string", "enum_string", "enum_int",
     "data", "no_none_data", "point", "stiffness", "loading_type", "analysis_type"}

\* value holds a delimiter character
HasDelimiter(value) ==
    \E i \in DOMAIN value : value[i] = START_TAG \/ value[i] = END_TAG

\* C8: for every setter kind (string, float, int, bool, bool-as-string,
\* string-enum, int-enum, entity reference, point, stiffness factor, loading
\* type, analysis type), assigning a value on an entity whose read-only flag
\* is set raises the read-only error and no command reaches the transport.
C8_ReadOnlySetterRaises ==
    (call.op \in SetterKinds /\ call.read_only)
        => (call.err = "ReadOnly" /\ transport = <<>>)

\* C9: every property write whose encoded value holds "[" or "]" is rejected
\* with the invalid-value error before any command is handed to the
\* transport, whatever the setter.
C9_DelimiterValueRejected ==
    (call.op \in SetterKinds
        /\ \E k \in DOMAIN call.encoded : HasDelimiter(call.encoded[k]))
        => (call.err = "InvalidValue" /\ transport = <<>>)

\* a string setter on a writable Data was given a value with "]" and no "["
\* and raised the invalid-value error
C9_Witness ==
    /\ call.op = "string"
    /\ ~call.read_only
    /\ \E k \in DOMAIN call.encoded :
          /\ \E i \in DOMAIN call.encoded[k] : call.encoded[k][i] = END_TAG
          /\ \A i \in DOMAIN call.encoded[k] : call.encoded[k][i] # START_TAG
    /\ call.err = "InvalidValue"
    /\ transport = <<>>

\* the uids for which the call in progress has sent a DELETE
DeleteSentFor ==
    {uid \in EntityUids :
        \E k \in DOMAIN transport : transport[k] = with_target(uid, Tok(<<"DELETE">>))}

\* C10: when add_point_loads on a writable layer fails while applying a
\* value to the point loads it created, a DELETE is issued for every point
\* load the call created and the error then propagates, so none of the
\* call's point loads remains.
C10_ValueFailureUndoesAll ==
    (call.op = "add_point_loads" /\ call.pc = "done" /\ ~call.read_only
        /\ call.value_failed)
        => /\ call.err # "none"
           /\ call.created \subseteq DeleteSentFor
           /\ call.created \cap entities = {}

\* the bulk add of the call has raised while it created its entities
CreationFailed ==
    /\ call.op = "add_point_loads"
    /\ call.pc = "done"
    /\ ~call.value_failed
    /\ call.err \notin {"none", "ReadOnly", "LengthMismatch"}

\* C11: when the creation of an entity fails in a bulk add, at the
\* NEW_ENTITY_USER command or at the GET_TYPE lookup, every entity the call
\* created in the process is deleted by the time the error propagates: the
\* entities of the process are those from before the call (the uids of the
\* call are new ones, so none of them is left).
C11_CreationFailureUndoesAll ==
    CreationFailed => call.created \cap entities = {}

\* ------------------------------------------------------------------------
\* Concept and Model: the command channel (concept.py, model.py)
\* ------------------------------------------------------------------------

MaxModels == 2

MaxRequests == 6

\* the texts of the responses, character by character
SUCCESS_PREFIX == <<"[", "S", "U", "C", "C", "E", "S", "S", "]", "[">>

FAILURE_PREFIX == <<"[", "F", "A", "I", "L", "U", "R", "E", "]", "[">>

PONG == <<"P", "O", "N", "G">>

SHUTTING_DOWN == <<"S", "H", "U", "T", "T", "I", "N", "G", "_", "D", "O", "W", "N">>

\* what requests.post and raise_for_status can give: a fault of the
\* transport (no connection, timeout), an HTTP error status, or a text
Fault == [kind |-> "fault", text |-> <<>>]

BadStatus == [kind |-> "status", text |-> <<>>]

Text(t) == [kind |-> "text", text |-> t]

Success(payload) == Text(SUCCESS_PREFIX \o payload \o <<END_TAG>>)

Failure(payload) == Text(FAILURE_PREFIX \o payload \o <<END_TAG>>)

\* longest payload of the success responses of every shape
MaxPayload == 3

\* the payloads of every shape: the strings of delimiters and a character
Payloads == UNION {ListsOfLen({START_TAG, END_TAG, "7"}, n) : n \in 0..MaxPayload}

\* the answers to a ping: the two envelopes with several payloads, texts
\* that are no envelope (empty, bare, cut short, unclosed), and the success
\* envelope around every payload
PingResponses ==
    {Success(payload) : payload \in Payloads} \cup
    {Fault, BadStatus,
     Success(PONG), Success(<<>>), Success(<<"7">>), Success(Tok(<<"7">>)),
     Success(Tok(<<"1">>) \o Tok(<<"2">>)), Success(Tok(Tok(<<>>))),
     Success(<<END_TAG, START_TAG>>),
     Failure(<<"E">>), Failure(<<>>),
     Text(<<>>), Text(PONG), Text(SubSeq(SUCCESS_PREFIX, 1, 9)),
     Text(SUCCESS_PREFIX), Text(SUCCESS_PREFIX \o <<"7">>), Text(Tok(<<"7">>))}

\* the answers to the other commands
CommandResponses == {Fault, Success(<<>>), Failure(<<"E">>), Text(PONG)}

ShutDownResponses == CommandResponses \cup {Success(SHUTTING_DOWN)}

\* what one Concept._command leaves: the error raised, the value returned,
\* the text the error carries, the requests handed to the transport with
\* their RequestId, the number of calls of requests.post
Done(e, result, message, posted, calls) ==
    [err |-> e, result |-> result, message |-> message, posted |-> posted,
     calls |-> calls]

\* the payload taken as the text up to the first end tag after the prefix
success_payload_to_first_end_tag(result) ==
    LET rest_of == Slice(result, 10, Len(result))
        ends == {i \in DOMAIN rest_of : rest_of[i] = END_TAG}
    IN  IF ends = {} THEN rest_of
        ELSE SubSeq(rest_of, 1, (CHOOSE i \in ends : \A j \in ends : i <= j) - 1)

\* result[10:-1], what Concept._command returns for a success
success_payload(result) == Slice(result, 10, -1)

\* Concept._command posting a second time after a fault of the transport
command_retrying(has_url, requestId, cmd, resp) ==
    IF ~has_url THEN Done("InvalidURL", <<>>, <<>>, <<>>, 1)
    ELSE IF resp.kind = "fault"
    THEN Done("Transport", <<>>, <<>>, <<<<requestId, cmd>>, <<requestId, cmd>>>>, 2)
    ELSE IF resp.kind = "status"
    THEN Done("Transport", <<>>, <<>>, <<<<requestId, cmd>>>>, 1)
    ELSE IF Slice(resp.text, 0, 10) = SUCCESS_PREFIX
    THEN Done("none", Slice(resp.text, 10, -1), <<>>, <<<<requestId, cmd>>>>, 1)
    ELSE IF Slice(resp.text, 0, 10) = FAILURE_PREFIX
    THEN Done("Remote", <<>>, Slice(resp.text, 10, -1), <<<<requestId, cmd>>>>, 1)
    ELSE Done("Internal", <<>>, resp.text, <<<<requestId, cmd>>>>, 1)

\* Concept._command after it took its request id: requests.post refuses a
\* URL of None before anything goes out
command(has_url, requestId, cmd, resp) ==
    IF ~has_url THEN Done("InvalidURL", <<>>, <<>>, <<>>, 1)
    ELSE IF resp.kind \in {"fault", "status"}
    THEN Done("Transport", <<>>, <<>>, <<<<requestId, cmd>>>>, 1)
    ELSE IF Slice(resp.text, 0, 10) = SUCCESS_PREFIX
    THEN Done("none", success_payload(resp.text), <<>>, <<<<requestId, cmd>>>>, 1)
    ELSE IF Slice(resp.text, 0, 10) = FAILURE_PREFIX
    THEN Done("Remote", <<>>, Slice(resp.text, 10, -1), <<<<requestId, cmd>>>>, 1)
    ELSE Done("Internal", <<>>, resp.text, <<<<requestId, cmd>>>>, 1)

\* the Concept, its Models and what an operation did so far
Start ==
    [url |-> url, nextRequestId |-> nextRequestId, concept_model |-> concept_model,
     model_concept |-> model_concept, log |-> log, wire |-> <<>>,
     err |-> "none", result |-> <<>>, message |-> <<>>, calls |-> 0,
     opened |-> 0, process_model |-> process_model]

RaiseIn(w, e) == [w EXCEPT !.err = e, !.result = <<>>]

\* the process after a command: a command answered with success has
\* closed the model or opened one, any other command and any command
\* answered otherwise leaves the model as it is
process_after(open, cmd, err) ==
    IF err # "none" THEN open
    ELSE IF cmd = Tok(<<"CLOSE_MODEL">>) THEN FALSE
    ELSE IF cmd = Tok(<<"NEW_MODEL">>) \/ StartsWith(cmd, Tok(<<"OPEN_FILE">>)) THEN TRUE
    ELSE open

\* Concept._command taking a new request id only when the command succeeds
concept_command_reusing_id(w, cmd, resp) ==
    IF w.err # "none" THEN w
    ELSE LET c == command(w.url, w.nextRequestId, cmd, resp)
         IN  [w EXCEPT !.nextRequestId = IF c.err = "none" THEN @ + 1 ELSE @,
                       !.log = @ \o [k \in DOMAIN c.posted |-> c.posted[k][1]],
                       !.wire = @ \o [k \in DOMAIN c.posted |-> c.posted[k][2]],
                       !.err = c.err, !.result = c.result, !.message = c.message,
                       !.calls = @ + c.calls,
                       !.process_model = process_after(@, cmd, c.err)]

\* Concept._command as a step of an operation: nothing if the operation
\* has raised before
concept_command(w, cmd, resp) ==
    IF w.err # "none" THEN w
    ELSE LET c == command(w.url, w.nextRequestId, cmd, resp)
         IN  [w EXCEPT !.nextRequestId = @ + 1,
                       !.log = @ \o [k \in DOMAIN c.posted |-> c.posted[k][1]],
                       !.wire = @ \o [k \in DOMAIN c.posted |-> c.posted[k][2]],
                       !.err = c.err, !.result = c.result, !.message = c.message,
                       !.calls = @ + c.calls,
                       !.process_model = process_after(@, cmd, c.err)]

\* Model._command going to the Concept whatever self._concept holds
model_command_unguarded(w, model, cmd, resp) == concept_command(w, cmd, resp)

\* Model._command: self._concept is None once the Model is closed
model_command(w, model, cmd, resp) ==
    IF w.err # "none" THEN w
    ELSE IF w.model_concept[model] # "bound" THEN RaiseIn(w, "NoConcept")
    ELSE concept_command(w, cmd, resp)

\* Concept._model_closed
model_closed(w, model) ==
    IF model # w.concept_model THEN RaiseIn(w, "NotActive")
    ELSE [w EXCEPT !.concept_model = 0]

\* Model.close_model telling the Concept and forgetting it whatever the
\* command did
close_model_whatever(w, model, resp) ==
    LET w1 == model_command(w, model, Tok(<<"CLOSE_MODEL">>), resp)
    IN  IF w1.err = "NoConcept" THEN w1
        ELSE [w1 EXCEPT !.concept_model = 0, !.model_concept[model] = "closed"]

\* Model.close_model
close_model(w, model, resp) ==
    LET w1 == model_command(w, model, Tok(<<"CLOSE_MODEL">>), resp)
        w2 == model_closed(w1, model)
    IN  IF w1.err # "none" THEN w1
        ELSE IF w2.err # "none" THEN w2
        ELSE [w2 EXCEPT !.model_concept[model] = "closed"]

\* Concept._close_any_open_model closing nothing
close_any_open_model_skipped(w, resp) == w

\* Concept._close_any_open_model
close_any_open_model(w, resp) ==
    IF w.err # "none" \/ w.concept_model = 0 THEN w
    ELSE close_model(w, w.concept_model, resp)

\* the number of the next Model object
NewModel(w) ==
    CHOOSE m \in 1..MaxModels :
        /\ w.model_concept[m] = "unborn"
        /\ \A k \in 1..(m - 1) : w.model_concept[k] # "unborn"

\* self._model = Model(self); return self._model
bind_model(w) ==
    IF w.err # "none" THEN w
    ELSE [w EXCEPT !.concept_model = NewModel(w),
                   !.model_concept[NewModel(w)] = "bound",
                   !.opened = NewModel(w)]

\* file paths given to open_file and save_file: a plain one and two that
\* hold a delimiter character
FilePaths == {<<"a.cpt">>, <<"a", END_TAG, ".cpt">>, <<START_TAG, "a.cpt">>}

\* Concept.open_file
open_file(w, file_path, resp1, resp2) ==
    bind_model(concept_command(close_any_open_model(w, resp1),
                               Tok(<<"OPEN_FILE">>) \o Tok(file_path), resp2))

\* Concept.new_model
new_model(w, resp1, resp2) ==
    bind_model(concept_command(close_any_open_model(w, resp1),
                               Tok(<<"NEW_MODEL">>), resp2))

\* Concept.shut_down
shut_down(w, resp1, resp2) ==
    LET w2 == concept_command(close_any_open_model(w, resp1),
                              Tok(<<"SHUT_DOWN">>), resp2)
    IN  IF w2.err # "none" THEN w2
        ELSE IF w2.result # SHUTTING_DOWN THEN RaiseIn(w2, "Unexpected")
        ELSE [w2 EXCEPT !.url = FALSE]

\* Concept.ping
ping(w, resp) == concept_command(w, Tok(<<"PING">>), resp)

\* Model.calc_all
calc_all(w, model, resp) == model_command(w, model, Tok(<<"CALC_ALL">>), resp)

\* Model.save_file
save_file(w, model, file_path, resp) ==
    model_command(w, model, Tok(<<"SAVE_FILE">>) \o Tok(file_path), resp)

\* Data._delete on a Data obtained from the Model: Data._command
data_delete(w, model, uid, resp) ==
    model_command(w, model, with_target(uid, Tok(<<"DELETE">>)), resp)

\* the Models that exist as objects
Models == {m \in 1..MaxModels : model_concept[m] # "unborn"}

\* Concept(url): the ping of the constructor was answered with PONG
ConceptInit ==
    /\ NoParser
    /\ NoClient
    /\ NoStartup
    /\ NoMaterials
    /\ NoLoading
    /\ url = TRUE
    /\ nextRequestId = 2
    /\ concept_model = 0
    /\ model_concept = [m \in 1..MaxModels |-> "unborn"]
    /\ process_model = FALSE
    /\ log = <<1>>
    /\ wire = <<Tok(<<"PING">>)>>
    /\ outcome = [op |-> "init", model |-> 0, bound |-> FALSE, was_shut |-> FALSE,
                  before |-> 0,
                  response |-> Success(PONG), err |-> "none", result |-> PONG,
                  message |-> <<>>, calls |-> 1, opened |-> 0]

\* an operation on the Concept or on one of its Models has run as w
Operation(name, model, resp, w) ==
    /\ nextRequestId + 2 <= MaxRequests + 1
    /\ url' = w.url
    /\ nextRequestId' = w.nextRequestId
    /\ concept_model' = w.concept_model
    /\ model_concept' = w.model_concept
    /\ log' = w.log
    /\ wire' = w.wire
    /\ process_model' = w.process_model
    /\ outcome' = [op |-> name, model |-> model,
                   bound |-> IF model = 0 THEN FALSE
                             ELSE model_concept[model] = "bound",
                   was_shut |-> ~url, before |-> concept_model,
                   response |-> resp, err |-> w.err, result |-> w.result,
                   message |-> w.message, calls |-> w.calls, opened |-> w.opened]
    /\ UNCHANGED <<pvars, dvars, svars, mvars, lvars>>

Ping == \E resp \in PingResponses : Operation("ping", 0, resp, ping(Start, resp))

OpenFile ==
    /\ \E m \in 1..MaxModels : model_concept[m] = "unborn"
    /\ \E file_path \in FilePaths, resp1 \in CommandResponses,
          resp2 \in CommandResponses :
          Operation("open_file", 0, resp2, open_file(Start, file_path, resp1, resp2))

NewModelOp ==
    /\ \E m \in 1..MaxModels : model_concept[m] = "unborn"
    /\ \E resp1 \in CommandResponses, resp2 \in CommandResponses :
          Operation("new_model", 0, resp2, new_model(Start, resp1, resp2))

ShutDown ==
    \E resp1 \in CommandResponses, resp2 \in ShutDownResponses :
        Operation("shut_down", 0, resp2, shut_down(Start, resp1, resp2))

CloseModel ==
    \E m \in Models, resp \in CommandResponses :
        Operation("close_model", m, resp, close_model(Start, m, resp))

CalcAll ==
    \E m \in Models, resp \in CommandResponses :
        Operation("calc_all", m, resp, calc_all(Start, m, resp))

SaveFile ==
    \E m \in Models, file_path \in FilePaths, resp \in CommandResponses :
        Operation("save_file", m, resp, save_file(Start, m, file_path, resp))

DataDelete ==
    \E m \in Models, resp \in CommandResponses :
        Operation("delete", m, resp, data_delete(Start, m, DataUid, resp))

ConceptNext ==
    \/ Ping
    \/ OpenFile
    \/ NewModelOp
    \/ ShutDown
    \/ CloseModel
    \/ CalcAll
    \/ SaveFile
    \/ DataDelete

ConceptSpec == ConceptInit /\ [][ConceptNext]_vars

\* ------------------------------------------------------------------------
\* Properties of the command channel (checked under ConceptSpec)
\* ------------------------------------------------------------------------

\* the text is the prefix, a payload and a closing delimiter
Enveloped(prefix, text) ==
    /\ Len(text) >= Len(prefix) + 1
    /\ SubSeq(text, 1, Len(prefix)) = prefix
    /\ text[Len(text)] = END_TAG

\* the payload of an enveloped text
InnerPayload(text) == SubSeq(text, 11, Len(text) - 1)

HasPrefix(prefix, text) ==
    Len(text) >= Len(prefix) /\ SubSeq(text, 1, Len(prefix)) = prefix

\* C12: a Concept._command call (here the one ping makes) calls the
\* transport exactly once and ends in one outcome: a response with the
\* success prefix returns the inner payload, one with the failure prefix
\* raises the remote error carrying the inner payload, one with neither
\* prefix raises the internal error carrying the raw response, a fault of the
\* transport propagates; at most one request goes out in every case.
C12_OneCallOneOutcome ==
    (outcome.op = "ping" /\ ~outcome.was_shut) =>
        LET resp == outcome.response
        IN  /\ outcome.calls = 1
            /\ Len(wire) = 1
            /\ resp.kind \in {"fault", "status"} => outcome.err = "Transport"
            /\ (resp.kind = "text" /\ HasPrefix(SUCCESS_PREFIX, resp.text)) =>
                  /\ outcome.err = "none"
                  /\ Enveloped(SUCCESS_PREFIX, resp.text) =>
                        outcome.result = InnerPayload(resp.text)
            /\ (resp.kind = "text" /\ HasPrefix(FAILURE_PREFIX, resp.text)) =>
                  /\ outcome.err = "Remote"
                  /\ Enveloped(FAILURE_PREFIX, resp.text) =>
                        outcome.message = InnerPayload(resp.text)
            /\ (resp.kind = "text" /\ ~HasPrefix(SUCCESS_PREFIX, resp.text)
                  /\ ~HasPrefix(FAILURE_PREFIX, resp.text)) =>
                  /\ outcome.err = "Internal"
                  /\ outcome.message = resp.text

\* a ping after other commands was answered with a fault of the transport,
\* which propagated after the one request
C12_Witness ==
    /\ outcome.op = "ping"
    /\ ~outcome.was_shut
    /\ outcome.response = Fault
    /\ outcome.err = "Transport"
    /\ outcome.calls = 1
    /\ Len(wire) = 1
    /\ Len(log) >= 2

\* C13: the request identifiers sent in the RequestId header over the
\* commands of one Concept, failed ones included, are 1, 2, 3, ...: each is
\* the previous one plus one and none is used twice.
C13_RequestIdsIncrease ==
    \A k \in DOMAIN log : log[k] = k

\* four commands were sent and the last one failed in the process
C13_Witness ==
    /\ Len(log) >= 4
    /\ outcome.err = "Remote"
    /\ log[Len(log)] = Len(log)

\* the Models still bound to the Concept
OpenModels == {m \in 1..MaxModels : model_concept[m] = "bound"}

\* C14: after any sequence of new_model, open_file, close_model and
\* shut_down at most one Model is open, and it is the current model of the
\* Concept; open_file and new_model send CLOSE_MODEL for the open model
\* before they send OPEN_FILE or NEW_MODEL.
C14_AtMostOneOpenModel ==
    /\ Cardinality(OpenModels) <= 1
    /\ \A m \in OpenModels : concept_model = m
    /\ concept_model # 0 => concept_model \in OpenModels
    /\ (outcome.op \in {"open_file", "new_model"} /\ outcome.before # 0
          /\ ~outcome.was_shut) =>
          /\ wire # <<>>
          /\ wire[1] = Tok(<<"CLOSE_MODEL">>)
          /\ \A k \in DOMAIN wire :
                wire[k][2] \in {"OPEN_FILE", "NEW_MODEL"} => k = 2

\* open_file has closed the open Model and opened a second one
C14_Witness ==
    /\ outcome.op = "open_file"
    /\ outcome.before # 0
    /\ outcome.err = "none"
    /\ Len(wire) = 2
    /\ concept_model = outcome.opened
    /\ outcome.opened # outcome.before
    /\ model_concept[outcome.before] = "closed"

\* C15: once a Model is closed, every later operation through it or through
\* a Data obtained from it fails without a command reaching the process;
\* once shut_down has succeeded every later command on the Concept fails.
C15_ClosedMeansUnusable ==
    /\ (outcome.model # 0 /\ ~outcome.bound) =>
          (outcome.err # "none" /\ wire = <<>>)
    /\ (outcome.op # "init" /\ outcome.was_shut) =>
          (outcome.err # "none" /\ wire = <<>>)

\* a delete through a Data of a Model that open_file or new_model closed
\* has raised
C15_Witness ==
    /\ outcome.op = "delete"
    /\ outcome.model # 0
    /\ ~outcome.bound
    /\ concept_model # 0
    /\ concept_model # outcome.model
    /\ outcome.err = "NoConcept"
    /\ wire = <<>>

\* ------------------------------------------------------------------------
\* Concept.start_concept: the startup of the process (concept.py)
\* ------------------------------------------------------------------------

\* the startup deadline, in rounds of the polling loop (the sleep of a
\* round is half a second)
StartTimeout == 2

\* the lines _stdout_to_queue puts in the queue before it drops them (100
\* in the code)
MaxLines == 3

SERVER_START_SUCCESS == Tok(<<"SERVER_START_SUCCESS">>)

SERVER_START_FAILURE == Tok(<<"SERVER_START_FAILURE">>)

\* the lines the process writes, after rstrip(): the two sentinels, the
\* failure sentinel without its error token and with text that is no
\* token, the success sentinel followed by a token, a blank line
StdoutLines ==
    {SERVER_START_SUCCESS,
     SERVER_START_FAILURE \o Tok(<<"no license">>),
     SERVER_START_FAILURE,
     SERVER_START_FAILURE \o <<"no license">>,
     SERVER_START_SUCCESS \o Tok(<<"7">>),
     <<>>}

\* what the loop does with a line it read: "break", the error it raises,
\* or "go on" for a line it only prints
read_line(line) ==
    IF line = SERVER_START_SUCCESS THEN "break"
    ELSE IF StartsWith(line, SERVER_START_FAILURE)
    THEN IF parse(line, TRUE).err # "none" THEN parse(line, TRUE).err
         ELSE IF Len(parse(line, TRUE).tokens) < 2 THEN "IndexError"
         ELSE "StartFailed"
    ELSE "go on"

\* read_line on each of the lines
line_read == [line \in StdoutLines |-> read_line(line)]

NotStarted ==
    [pc |-> "idle", port_given |-> FALSE, attempts |-> 0, launches |-> 0,
     process |-> "none", passed |-> FALSE, clock |-> 0, queue |-> <<>>,
     put |-> 0, exit |-> "none", line |-> <<>>, read |-> FALSE, err |-> "none"]

\* the except clause of _start_concept without process.kill()
error_exit_without_kill(s, e, exit) ==
    [s EXCEPT !.pc = "failed", !.err = e, !.exit = exit]

\* the except clause of _start_concept: process.kill(), then raise
error_exit(s, e, exit) ==
    [s EXCEPT !.pc = "failed", !.err = e, !.exit = exit, !.process = "killed"]

\* the except clause of start_concept trying again whatever the port
start_concept_except_any_port(port_given, attempts) ==
    IF attempts = 1 THEN "start" ELSE "raised"

\* where a failure of _start_concept goes in start_concept: the except
\* clause calls _start_concept once more if no port was given, and the
\* failure of that second call propagates
start_concept_except(port_given, attempts) ==
    IF attempts = 1 /\ ~port_given THEN "start" ELSE "raised"

StartupInit ==
    /\ NoParser
    /\ NoClient
    /\ NoConcept
    /\ NoMaterials
    /\ NoLoading
    /\ startup = NotStarted

Startup(s) ==
    /\ startup' = s
    /\ UNCHANGED <<pvars, dvars, cvars, mvars, lvars>>

\* Concept.start_concept is called, with a port or without
StartConcept ==
    /\ startup.pc = "idle"
    /\ \E port_given \in BOOLEAN :
          Startup([startup EXCEPT !.pc = "start", !.port_given = port_given,
                                  !.attempts = 1])

\* _start_concept up to subprocess.Popen: no path to the program is found,
\* Popen raises, or the process is there
Launch ==
    /\ startup.pc = "start"
    /\ \E o \in {"no path", "popen fails", "spawned"} :
          Startup(IF o = "no path"
                  THEN [startup EXCEPT !.pc = "failed", !.err = "NoPath",
                                       !.process = "none", !.passed = FALSE,
                                       !.exit = "none", !.read = FALSE]
                  ELSE IF o = "popen fails"
                  THEN [startup EXCEPT !.pc = "failed", !.err = "Popen",
                                       !.launches = @ + 1,
                                       !.process = "none", !.passed = FALSE,
                                       !.exit = "none", !.read = FALSE]
                  ELSE [startup EXCEPT !.pc = "liveness", !.err = "none",
                                       !.launches = @ + 1,
                                       !.process = "running", !.passed = FALSE,
                                       !.exit = "none", !.read = FALSE])

\* process.poll() after two seconds, then the queue and its thread
LivenessCheck ==
    /\ startup.pc = "liveness"
    /\ \E exited \in BOOLEAN :
          Startup(IF exited
                  THEN [startup EXCEPT !.pc = "failed", !.err = "Exited",
                                       !.process = "exited"]
                  ELSE [startup EXCEPT !.pc = "polling", !.passed = TRUE,
                                       !.clock = 0, !.queue = <<>>, !.put = 0,
                                       !.line = <<>>])

\* _stdout_to_queue in its thread: one more line of the process
StdoutToQueue ==
    /\ startup.pc = "polling"
    /\ startup.put < MaxLines
    /\ \E line \in StdoutLines :
          Startup([startup EXCEPT !.queue = Append(@, line), !.put = @ + 1])

\* one round of the polling loop; the clock may have passed the deadline
\* at any round
Poll ==
    /\ startup.pc = "polling"
    /\ LET empty == startup.queue = <<>>
           line == IF empty THEN <<>> ELSE Head(startup.queue)
           s == IF empty THEN startup
                ELSE [startup EXCEPT !.queue = Tail(@), !.line = line,
                                     !.read = TRUE]
       IN  IF ~empty /\ line_read[line] = "break"
           THEN Startup([s EXCEPT !.pc = "construct", !.exit = "success"])
           ELSE IF ~empty /\ line_read[line] # "go on"
           THEN Startup(error_exit(s, line_read[line], "failure"))
           ELSE IF s.clock > StartTimeout
           THEN Startup(error_exit(s, "Timeout", "timeout"))
           ELSE \E now \in {s.clock + 1, StartTimeout + 1} :
                   Startup([s EXCEPT !.clock = now])

\* Concept(url): the ping of the constructor
Construct ==
    /\ startup.pc = "construct"
    /\ \E resp \in {Success(PONG), Success(<<>>), Fault} :
          LET c == command(TRUE, 1, Tok(<<"PING">>), resp)
          IN  Startup(IF c.err # "none" THEN error_exit(startup, c.err, startup.exit)
                      ELSE IF c.result # PONG
                      THEN error_exit(startup, "Unexpected", startup.exit)
                      ELSE [startup EXCEPT !.pc = "ping"])

\* the ping of _start_concept
PingCheck ==
    /\ startup.pc = "ping"
    /\ \E resp \in {Success(PONG), Success(<<>>), Fault} :
          LET c == command(TRUE, 2, Tok(<<"PING">>), resp)
          IN  Startup(IF c.err # "none" THEN error_exit(startup, c.err, startup.exit)
                      ELSE IF c.result # PONG
                      THEN error_exit(startup, "Unexpected", startup.exit)
                      ELSE [startup EXCEPT !.pc = "returned"])

\* the failure of _start_concept reaches start_concept
Except ==
    /\ startup.pc = "failed"
    /\ LET to == start_concept_except(startup.port_given, startup.attempts)
       IN  Startup(IF to = "start"
                   THEN [startup EXCEPT !.pc = "start", !.attempts = @ + 1]
                   ELSE [startup EXCEPT !.pc = "raised"])

StartupNext ==
    \/ StartConcept
    \/ Launch
    \/ LivenessCheck
    \/ StdoutToQueue
    \/ Poll
    \/ Construct
    \/ PingCheck
    \/ Except

StartupSpec == StartupInit /\ [][StartupNext]_vars

\* the polling loop goes on running: its thread is not held up for ever
StartupLiveSpec == StartupSpec /\ WF_vars(Poll)

PollingExits ==
    /\ startup.exit = "success" => startup.line = SERVER_START_SUCCESS
    /\ startup.exit = "failure" =>
          /\ StartsWith(startup.line, SERVER_START_FAILURE)
          /\ startup.err # "none"
    /\ startup.exit = "timeout" =>
          /\ startup.clock > StartTimeout
          /\ startup.err = "Timeout"
    /\ (startup.passed /\ startup.pc # "polling" /\ startup.read) =>
          /\ startup.line = SERVER_START_SUCCESS => startup.exit = "success"
          /\ StartsWith(startup.line, SERVER_START_FAILURE) =>
                startup.exit = "failure"
    /\ (startup.passed /\ startup.pc = "failed") => startup.process = "killed"

\* C17: the polling loop of _start_concept always ends: with success once
\* the line [SERVER_START_SUCCESS] is read, with an error once a line
\* starting with [SERVER_START_FAILURE] is read, otherwise with the timeout
\* error once the deadline has passed; on every error exit after the
\* liveness check the process is killed before the error propagates.
C17_PollingEnds ==
    /\ []PollingExits
    /\ (startup.pc = "polling") ~> (startup.pc # "polling")

\* the loop has read lines it only prints and ended with the timeout error,
\* the process killed
C17_Witness ==
    /\ startup.pc = "failed"
    /\ startup.exit = "timeout"
    /\ startup.read
    /\ startup.process = "killed"
    /\ startup.clock > StartTimeout

\* C18: every command string handed to the transport is a valid bracket
\* string, for every operation and every argument value, file paths
\* included.
C18_CommandsAreBracketStrings ==
    \A k \in DOMAIN wire : is_valid_parse_string(wire[k])

\* ------------------------------------------------------------------------
\* The float codec (utilities.py) and BracketParser.parse_floats
\* ------------------------------------------------------------------------

\* the number of tokens of the strings given to parse_floats
MaxFloats == 3

\* the floats of the model: two numbers and sys.float_info.max with its
\* negative
Floats == {"0.0", "1.5", "max", "-max"}

\* float(value) of Python on the strings of the model: two spellings of
\* one number give one float, other text raises ValueError
float_of(value) ==
    IF value \in {<<"1.5">>, <<"1.50">>} THEN [err |-> "none", val |-> "1.5"]
    ELSE IF value = <<"0.0">> THEN [err |-> "none", val |-> "0.0"]
    ELSE [err |-> "ValueError", val |-> "none"]

\* _user_str_to_API_float knowing the positive sentinel only
user_str_to_API_float_positive_only(value) ==
    IF value = <<"infinite">> THEN [err |-> "none", val |-> "max"]
    ELSE float_of(value)

\* _user_str_to_API_float
user_str_to_API_float(value) ==
    IF value = <<"infinite">> THEN [err |-> "none", val |-> "max"]
    ELSE IF value = <<"-infinite">> THEN [err |-> "none", val |-> "-max"]
    ELSE float_of(value)

\* the loop of parse_floats over the tokens from the k-th on
RECURSIVE parse_floats_loop(_, _, _)
parse_floats_loop(strings, k, float_list) ==
    IF k > Len(strings) THEN [err |-> "none", floats |-> float_list]
    ELSE IF user_str_to_API_float(strings[k]).err # "none"
    THEN [err |-> user_str_to_API_float(strings[k]).err, floats |-> <<>>]
    ELSE parse_floats_loop(strings, k + 1,
                           Append(float_list, user_str_to_API_float(strings[k]).val))

\* BracketParser.parse_floats
parse_floats(string_to_parse, asserts) ==
    IF parse(string_to_parse, asserts).err # "none"
    THEN [err |-> parse(string_to_parse, asserts).err, floats |-> <<>>]
    ELSE parse_floats_loop(parse(string_to_parse, asserts).tokens, 1, <<>>)

\* the tokens of the strings given to parse_floats: numbers, the two
\* sentinels, text that is no number, a token holding a token
FloatTokens ==
    {<<"1.5">>, <<"1.50">>, <<"infinite">>, <<"-infinite">>, <<"abc">>,
     Tok(<<"1.5">>)}

FloatStrings ==
    {Encode(tokens) : tokens \in UNION {ListsOfLen(FloatTokens, n) : n \in 0..MaxFloats}}
    \cup {<<"1.5">>, <<START_TAG, "1.5">>}

\* a string of float tokens as the process returns it
FloatInit ==
    /\ parse_string \in FloatStrings
    /\ current_position = 0
    /\ asserts_enabled \in BOOLEAN
    /\ last = Called("init", 0, 0, Outcome("none", FALSE, 0, <<>>, NoTokens, 0))
    /\ NoClient
    /\ NoRest

\* parse_floats on the string: tokens holds the floats returned
ParseFloats ==
    /\ last.op = "init"
    /\ LET r == parse_floats(parse_string, asserts_enabled)
       IN  last' = Called("parse_floats", 0, 0,
                          Outcome(r.err, FALSE, 0, <<>>, r.floats, 0))
    /\ UNCHANGED <<parse_string, current_position, asserts_enabled>>
    /\ UNCHANGED <<dvars, rest>>

\* _API_float_to_user_str on each float parse_floats returned: token holds
\* the floats, tokens the strings
EncodeFloats ==
    /\ last.op = "parse_floats"
    /\ last.err = "none"
    /\ last' = Called("encode", 0, 0,
                      Outcome("none", FALSE, 0, last.tokens,
                              [k \in DOMAIN last.tokens |->
                                  API_float_to_user_str(last.tokens[k]).str], 0))
    /\ UNCHANGED <<parse_string, current_position, asserts_enabled>>
    /\ UNCHANGED <<dvars, rest>>

\* _user_str_to_API_float on each of these strings: token holds the floats
\* encoded, tokens the floats decoded
DecodeFloats ==
    /\ last.op = "encode"
    /\ last' = Called("decode", 0, 0,
                      Outcome("none", FALSE, 0, last.token,
                              [k \in DOMAIN last.tokens |->
                                  user_str_to_API_float(last.tokens[k]).val], 0))
    /\ UNCHANGED <<parse_string, current_position, asserts_enabled>>
    /\ UNCHANGED <<dvars, rest>>

FloatNext ==
    \/ ParseFloats
    \/ EncodeFloats
    \/ DecodeFloats

FloatSpec == FloatInit /\ [][FloatNext]_vars

\* the float a token stands for by the convention of the process; "none"
\* for a token that is no float
FloatOfToken(token) ==
    CASE token = <<"infinite">> -> "max"
      [] token = <<"-infinite">> -> "-max"
      [] token \in {<<"1.5">>, <<"1.50">>} -> "1.5"
      [] token = <<"0.0">> -> "0.0"
      [] OTHER -> "none"

\* C19: the float codec follows the finite-sentinel convention both ways:
\* decoding maps "infinite" to the largest finite float and "-infinite" to
\* its negative, encoding maps these two floats back to these two tokens, so
\* that decoding what was encoded gives the float again, and parse_floats
\* returns one decoded value per top-level token, in order.
C19_FloatCodec ==
    LET tokens == TopLevelTokens(parse_string, 0)
    IN  /\ (last.op = "parse_floats" /\ is_valid_parse_string(parse_string)
              /\ \A k \in DOMAIN tokens : FloatOfToken(tokens[k]) # "none") =>
              /\ last.err = "none"
              /\ Len(last.tokens) = Len(tokens)
              /\ \A k \in DOMAIN tokens : last.tokens[k] = FloatOfToken(tokens[k])
        /\ last.op = "encode" =>
              \A k \in DOMAIN last.token :
                 /\ last.token[k] = "max" => last.tokens[k] = <<"infinite">>
                 /\ last.token[k] = "-max" => last.tokens[k] = <<"-infinite">>
        /\ last.op = "decode" =>
              \A k \in DOMAIN last.token :
                 last.token[k] \in {"max", "-max"} => last.tokens[k] = last.token[k]

\* parse_floats has returned [1.5, MAX_FLOAT, -MAX_FLOAT] for
\* "[1.5][infinite][-infinite]"
C19_Witness ==
    /\ last.op = "parse_floats"
    /\ parse_string = Tok(<<"1.5">>) \o Tok(<<"infinite">>) \o Tok(<<"-infinite">>)
    /\ last.err = "none"
    /\ last.tokens = <<"1.5", "max", "-max">>

\* ------------------------------------------------------------------------
\* Materials: Concrete, StrandMaterial, DuctSystem, AnchorSystem, PTSystem
\* ------------------------------------------------------------------------

\* the items of one kind the process holds at most
MaxMaterials == 3

\* the type of each kind of material and the key of its container
MaterialKinds ==
    {<<"Concrete", "$CONCRETES">>, <<"StrandMaterial", "$STRAND_MATERIALS">>,
     <<"DuctSystem", "$DUCT_SYSTEMS">>, <<"AnchorSystem", "$ANCHOR_SYSTEMS">>,
     <<"PTSystem", "$PT_SYSTEMS">>}

MaterialUids == (ReferencedUid + 1)..(ReferencedUid + MaxMaterials)

\* the uids of a set in the order of a list of the process
RECURSIVE UidList(_)
UidList(uids) ==
    IF uids = {} THEN <<>>
    ELSE LET u == CHOOSE x \in uids : \A y \in uids : x <= y
         IN  <<u>> \o UidList(uids \ {u})

\* Model._get_data_from_uid: the GET_TYPE command
get_type(uid) ==
    Tok(<<"WITH_TARGET">>) \o Tok(<<ToString(uid)>>) \o Tok(Tok(<<"GET_TYPE">>))

\* the commands of self.model.<container>.<list>: the key of the
\* container and its type, the children of the type, the type of each
list_commands(kind, items) ==
    <<Tok(<<"GET_UID_FOR_KEY">>) \o Tok(<<kind[2]>>), get_type(DataUid),
      with_target(DataUid, Tok(<<"GET_CHILDREN_OF_TYPE">>) \o Tok(<<kind[1]>>))>>
    \o [k \in 1..Cardinality(items) |-> get_type(UidList(items)[k])]

\* delete() of a material without the check of the last item
material_delete_unguarded(kind, items, uid, fail_at) ==
    LET listing == list_commands(kind, items)
        delete == with_target(uid, Tok(<<"DELETE">>))
    IN  IF fail_at \in DOMAIN listing
        THEN [r |-> R("Remote", SubSeq(listing, 1, fail_at), <<>>), items |-> items]
        ELSE IF fail_at = Len(listing) + 1 \/ uid \notin items
        THEN [r |-> R("Remote", Append(listing, delete), <<>>), items |-> items]
        ELSE [r |-> R("none", Append(listing, delete), <<>>), items |-> items \ {uid}]

\* Concrete.delete, StrandMaterial.delete, DuctSystem.delete,
\* AnchorSystem.delete, PTSystem.delete on the wrapper of uid: the list of
\* the kind is read, then the item is deleted unless the list has one item;
\* command number fail_at is answered with a failure, and so is the DELETE
\* of an item the process no longer holds
material_delete(kind, items, uid, fail_at) ==
    LET listing == list_commands(kind, items)
        delete == with_target(uid, Tok(<<"DELETE">>))
    IN  IF fail_at \in DOMAIN listing
        THEN [r |-> R("Remote", SubSeq(listing, 1, fail_at), <<>>), items |-> items]
        ELSE IF Cardinality(items) = 1
        THEN [r |-> R("LastOne", listing, <<>>), items |-> items]
        ELSE IF fail_at = Len(listing) + 1 \/ uid \notin items
        THEN [r |-> R("Remote", Append(listing, delete), <<>>), items |-> items]
        ELSE [r |-> R("none", Append(listing, delete), <<>>), items |-> items \ {uid}]

\* the names given to an add: None, the empty string, three names, and
\* names with a delimiter
NameInputs ==
    {<<"None">>, <<>>, <<"a">>, <<"b">>, <<"c">>, <<"a", START_TAG>>, <<END_TAG, "b">>}

\* the commands of Data._get_children and of the reads of the name of the
\* first count children
children_commands(items, count) ==
    <<with_target(DataUid, Tok(<<"GET_CHILDREN">>))>>
    \o [k \in 1..Cardinality(items) |-> get_type(UidList(items)[k])]
    \o [k \in 1..count |->
          get_property(UidList(items)[k], "Name", "Internal", "ok").sent[1]]

\* Data._raise_if_not_valid_unique_child_name without the comparison with
\* the names of the children
raise_if_valid_child_name_only(items, names, name, fail_at) ==
    IF name = <<"None">> THEN Raise("NameNone")
    ELSE IF name = <<>> THEN Raise("NameEmpty")
    ELSE IF raise_if_invalid_string_property_value(name) # "none"
    THEN Raise(raise_if_invalid_string_property_value(name))
    ELSE LET commands == children_commands(items, Cardinality(items))
         IN  IF fail_at \in DOMAIN commands
             THEN R("Remote", SubSeq(commands, 1, fail_at), <<>>)
             ELSE R("none", commands, <<>>)

\* Data._raise_if_not_valid_unique_child_name: None, the empty string and a
\* name with a delimiter are refused, then the children are read and the
\* name of each is compared, up to the first that is equal; command number
\* fail_at is answered with a failure
raise_if_not_valid_unique_child_name(items, names, name, fail_at) ==
    IF name = <<"None">> THEN Raise("NameNone")
    ELSE IF name = <<>> THEN Raise("NameEmpty")
    ELSE IF raise_if_invalid_string_property_value(name) # "none"
    THEN Raise(raise_if_invalid_string_property_value(name))
    ELSE LET children == UidList(items)
             equal == {k \in DOMAIN children : names[children[k]] = name}
             count == IF equal = {} THEN Len(children)
                      ELSE CHOOSE k \in equal : \A j \in equal : k <= j
             commands == children_commands(items, count)
         IN  IF fail_at \in DOMAIN commands
             THEN R("Remote", SubSeq(commands, 1, fail_at), <<>>)
             ELSE IF equal # {} THEN R("NotUnique", commands, <<>>)
             ELSE R("none", commands, <<>>)

\* Data._add_unique_named_child, as add_concrete and the like call it: the
\* check of the name, ADD_CHILD, then the GET_TYPE for the wrapper
material_add(kind, items, names, name, uid, fail_at) ==
    LET check == raise_if_not_valid_unique_child_name(items, names, name, fail_at)
        add_child == with_target(DataUid, Tok(<<"ADD_CHILD">>) \o Tok(<<kind[1]>>)
                                          \o Tok(name) \o Tok(<<"NO_SORT">>))
    IN  IF check.err # "none"
        THEN [r |-> check, created |-> {}, wrapped |-> {}]
        ELSE IF fail_at = Len(check.sent) + 1
        THEN [r |-> R("Remote", Append(check.sent, add_child), <<>>),
              created |-> {}, wrapped |-> {}]
        ELSE IF fail_at = Len(check.sent) + 2
        THEN [r |-> R("Remote", check.sent \o <<add_child, get_type(uid)>>, <<>>),
              created |-> {uid}, wrapped |-> {}]
        ELSE [r |-> R("none", check.sent \o <<add_child, get_type(uid)>>, <<>>),
              created |-> {uid}, wrapped |-> {uid}]

\* a call on the materials that has returned or raised: n is the number of
\* items before it, name the name given, duplicate whether an item had it
MaterialCall(op, r, n, created, name, duplicate) ==
    [op |-> op, pc |-> "done", err |-> r.err, n |-> n, created |-> created,
     name |-> name, duplicate |-> duplicate]

\* a Model with one or two items of a kind, as a new model or a file has
\* them, and a wrapper for each
MaterialInit ==
    /\ NoParser
    /\ NoConcept
    /\ NoStartup
    /\ NoLoading
    /\ data_read_only = FALSE
    /\ layer_read_only = FALSE
    /\ entities = {}
    /\ call = NoCall
    /\ transport = <<>>
    /\ \E kind \in MaterialKinds, n \in 1..2 :
          materials = [kind |-> kind,
                       items |-> (ReferencedUid + 1)..(ReferencedUid + n),
                       names |-> [uid \in (ReferencedUid + 1)..(ReferencedUid + n) |->
                                    IF uid = ReferencedUid + 1 THEN <<"a">> ELSE <<"b">>],
                       wrappers |-> (ReferencedUid + 1)..(ReferencedUid + n)]

\* a material is added to the container of the kind
AddMaterial ==
    /\ MaterialUids \ (materials.items \cup materials.wrappers) # {}
    /\ \E name \in NameInputs, fail_at \in 0..(2 * Cardinality(materials.items) + 3) :
          LET uid == CHOOSE u \in MaterialUids \ (materials.items \cup materials.wrappers) :
                        \A v \in MaterialUids \ (materials.items \cup materials.wrappers) : u <= v
              a == material_add(materials.kind, materials.items, materials.names,
                                name, uid, fail_at)
          IN  /\ materials' =
                    [materials EXCEPT
                       !.items = @ \cup a.created,
                       !.names = [u \in materials.items \cup a.created |->
                                    IF u \in materials.items THEN materials.names[u]
                                    ELSE name],
                       !.wrappers = @ \cup a.wrapped]
              /\ call' = MaterialCall("add_material", a.r, Cardinality(materials.items),
                                      a.created, name,
                                      \E u \in materials.items : materials.names[u] = name)
              /\ transport' = a.r.sent
    /\ UNCHANGED <<data_read_only, layer_read_only, entities>>
    /\ UNCHANGED <<pvars, cvars, svars, lvars>>

\* delete() on a wrapper the program holds, also one of an item deleted
\* before
DeleteMaterial ==
    /\ \E uid \in materials.wrappers,
          fail_at \in 0..(Cardinality(materials.items) + 4) :
          LET d == material_delete(materials.kind, materials.items, uid, fail_at)
          IN  /\ materials' = [materials EXCEPT
                                 !.items = d.items,
                                 !.names = [u \in d.items |-> materials.names[u]]]
              /\ call' = MaterialCall("delete_material", d.r,
                                      Cardinality(materials.items), {uid}, <<>>, FALSE)
              /\ transport' = d.r.sent
    /\ UNCHANGED <<data_read_only, layer_read_only, entities>>
    /\ UNCHANGED <<pvars, cvars, svars, lvars>>

MaterialNext ==
    \/ AddMaterial
    \/ DeleteMaterial

MaterialSpec == MaterialInit /\ [][MaterialNext]_vars

\* C20: the last material of a kind cannot be deleted: delete() on the only
\* remaining item raises and sends no DELETE command, so after any sequence
\* of add and delete operations the model holds at least one item of each
\* kind.
C20_LastMaterialStays ==
    /\ Cardinality(materials.items) >= 1
    /\ (call.op = "delete_material" /\ call.n = 1) =>
          /\ call.err # "none"
          /\ \A k \in DOMAIN transport, uid \in MaterialUids :
                transport[k] # with_target(uid, Tok(<<"DELETE">>))

\* after an item was added and another deleted, the delete of the only
\* item left has read the list and raised
C20_Witness ==
    /\ call.op = "delete_material"
    /\ call.n = 1
    /\ call.err = "LastOne"
    /\ call.created = materials.items
    /\ Cardinality(materials.wrappers) >= 2
    /\ transport # <<>>

\* ------------------------------------------------------------------------
\* Properties of the loading layers
\* ------------------------------------------------------------------------

\* the modifications of a ForceLoadingLayer and of the loads of its lists
LayerModifications ==
    {"add_point_load", "add_line_load", "add_area_load", "add_point_loads",
     "delete_layer", "set_load_property", "delete"}

\* C21: on a ForceLoadingLayer whose loading type is self_dead, balance or
\* hyperstatic, every modification raises and sends no command:
\* add_point_load, add_line_load, add_area_load, add_point_loads and delete
\* on the layer, and property sets and delete on any load obtained through
\* its point_loads, line_loads or area_loads lists.
C21_ReadOnlyLayerUnmodified ==
    (loading.type \in {<<"self_dead">>, <<"balance">>, <<"hyperstatic">>}
        /\ call.op \in LayerModifications)
        => (call.err = "ReadOnly" /\ transport = <<>> /\ call.created = {})

\* delete() on a load of the lists of a balance layer has raised the
\* read-only error, the load is still on the layer
C21_Witness ==
    /\ loading.type = <<"balance">>
    /\ call.op = "delete"
    /\ call.err = "ReadOnly"
    /\ transport = <<>>
    /\ entities # {}

\* ------------------------------------------------------------------------
\* The wrappers of one loading layer and its loading type (loading_layer.py)
\* ------------------------------------------------------------------------

\* most wrappers the program holds of the layer
MaxWrappers == 2

\* the causes of the loading types the layer has and is given
LayerCauses ==
    {"self_dead", "balance", "hyperstatic", "temperature", "shrinkage",
     "other", "other_dead", "wind_service_"}

LayerLoadingTypes == {lt \in LoadingTypes : lt.cause \in LayerCauses}

\* the class Model._get_data gives the wrapper of a layer of a cause
layer_class(cause) ==
    IF cause = "temperature" THEN "TemperatureLoadingLayer"
    ELSE IF cause = "shrinkage" THEN "ShrinkageLoadingLayer"
    ELSE "ForceLoadingLayer"

\* the loading_type setter of a wrapper on the layer as the process has it
layer_set_loading_type(read_only, layer, value, fail_at) ==
    set_loading_type(read_only, LayerUid, value, layer.type, layer.analysis,
                     Answer(1, fail_at), Answer(2, fail_at), Answer(3, fail_at))

\* Model._get_data on the uid of the layer: the GET_TYPE, then
\* LoadingLayer.__init__ reading LoadingType for the read-only flag
layer_wrapper(layer, fail_at) ==
    Then(R(IF fail_at = 1 THEN "Remote" ELSE "none", <<get_type(LayerUid)>>, <<>>),
         get_property(LayerUid, "LoadingType", "Internal", Answer(2, fail_at)))

\* a loading layer of the process, no wrapper of it yet
LoadingInit ==
    /\ NoParser
    /\ NoConcept
    /\ NoStartup
    /\ NoMaterials
    /\ data_read_only = FALSE
    /\ layer_read_only = FALSE
    /\ entities = {}
    /\ call = NoCall
    /\ transport = <<>>
    /\ \E lt \in LayerLoadingTypes, analysis_type \in AnalysisTypes :
          /\ valid_for_loading_cause(analysis_type, lt.cause)
          /\ loading = Layer(layer_class(lt.cause), loading_type_to_internal(lt),
                             analysis_type, <<>>)

\* the program gets one more wrapper of the layer
GetLayer ==
    /\ Len(loading.wrappers) < MaxWrappers
    /\ \E fail_at \in 0..2 :
          LET r == layer_wrapper(loading, fail_at)
          IN  /\ loading' = IF r.err # "none" THEN loading
                            ELSE [loading EXCEPT !.wrappers =
                                    Append(@, loading_layer_read_only(loading.type))]
              /\ call' = Finished("get_layer", FALSE, r)
              /\ transport' = r.sent
    /\ UNCHANGED <<data_read_only, layer_read_only, entities>>
    /\ UNCHANGED <<pvars, cvars, svars, mvars>>

\* loading_type is assigned through a wrapper
LayerSetLoadingType ==
    /\ \E k \in DOMAIN loading.wrappers, value \in LayerLoadingTypes, fail_at \in 0..3 :
          LET r == layer_set_loading_type(loading.wrappers[k], loading, value, fail_at)
          IN  /\ loading' = IF r.err # "none" THEN loading
                            ELSE [loading EXCEPT !.type = loading_type_to_internal(value)]
              /\ call' = [Finished("loading_type", loading.wrappers[k], r)
                            EXCEPT !.n = k]
              /\ transport' = r.sent
    /\ UNCHANGED <<data_read_only, layer_read_only, entities>>
    /\ UNCHANGED <<pvars, cvars, svars, mvars>>

\* analysis_type is assigned through a wrapper
LayerSetAnalysisType ==
    /\ \E k \in DOMAIN loading.wrappers, value \in AnalysisTypes, fail_at \in 0..2 :
          LET r == set_analysis_type(loading.wrappers[k], LayerUid, value, loading.type,
                                     Answer(1, fail_at), Answer(2, fail_at))
          IN  /\ loading' = IF r.err # "none" THEN loading
                            ELSE [loading EXCEPT !.analysis = value]
              /\ call' = [Finished("analysis_type", loading.wrappers[k], r)
                            EXCEPT !.n = k]
              /\ transport' = r.sent
    /\ UNCHANGED <<data_read_only, layer_read_only, entities>>
    /\ UNCHANGED <<pvars, cvars, svars, mvars>>

LoadingNext ==
    \/ GetLayer
    \/ LayerSetLoadingType
    \/ LayerSetAnalysisType

LoadingSpec == LoadingInit /\ [][LoadingNext]_vars

\* the set-property commands among the commands of the last call
SetPropertySent ==
    {k \in DOMAIN transport :
        \E name \in {"LoadingType", "AnalysisType"} :
            StartsWith(transport[k],
                       Tok(<<"WITH_TARGET">>) \o Tok(<<ToString(LayerUid)>>)
                       \o <<START_TAG>> \o Tok(<<"SET_PROP_INTERNAL">>) \o Tok(<<name>>))}

\* C22: the loading type and analysis type of a ShrinkageLoadingLayer or
\* TemperatureLoadingLayer cannot be changed: for a loading layer whose cause
\* is SHRINKAGE or TEMPERATURE, no assignment to loading_type or to
\* analysis_type, whatever the value, results in a set-property command
\* being sent.
C22_FixedLayerSendsNoSet ==
    (loading.type \in {<<"temperature">>, <<"shrinkage">>}
        /\ call.op \in {"loading_type", "analysis_type"})
        => SetPropertySent = {}

\* C26: no client-held remote state can go stale: for every LoadingLayer
\* wrapper, the read-only flag computed when it was constructed still equals
\* (the layer's current loading-type string is "self_dead", "balance" or
\* "hyperstatic") after any sequence of loading_type assignments made
\* through this API on any wrapper of the same layer.
C26_ReadOnlyFlagNeverStale ==
    \A k \in DOMAIN loading.wrappers :
        loading.wrappers[k]
            = (loading.type \in {<<"self_dead">>, <<"balance">>, <<"hyperstatic">>})

\* with two wrappers of the layer, an assignment of loading_type through the
\* second has changed the loading type in the process to another one
C26_Witness ==
    /\ Len(loading.wrappers) = 2
    /\ call.op = "loading_type"
    /\ call.n = 2
    /\ call.err = "none"
    /\ SetPropertySent # {}
    /\ loading.type = <<"other", "_dead", "_transfer">>

\* C23: add_point_loads requires all non-None parameters to be lists of the
\* same length: whenever any non-None argument among y, elevation, Fx, Fy,
\* Fz, Mx, My has a length different from len(x), the call raises and no
\* PointLoad created by the call remains on the layer.
C23_LengthMismatchRaises ==
    (call.op = "add_point_loads" /\ call.pc = "done" /\ call.mismatch)
        => (call.err # "none" /\ call.created \cap entities = {})

\* the ADD_CHILD commands among the commands of the last call
AddChildSent ==
    {k \in DOMAIN transport :
        StartsWith(transport[k],
                   Tok(<<"WITH_TARGET">>) \o Tok(<<ToString(DataUid)>>)
                   \o <<START_TAG>> \o Tok(<<"ADD_CHILD">>))}

\* C24: adding a named child (add_concrete, add_force_loading_layer and the
\* other add-by-name operations) with a name that is None, empty, contains
\* "[" or "]", or equals the name of an existing child of the same parent
\* raises and sends no ADD_CHILD command, so an add never creates a child
\* whose name duplicates an existing sibling's name.
C24_NoDuplicateNameAdded ==
    /\ \A u \in materials.items, v \in materials.items :
          materials.names[u] = materials.names[v] => u = v
    /\ (call.op = "add_material"
          /\ (\/ call.name = <<"None">>
              \/ call.name = <<>>
              \/ HasDelimiter(call.name)
              \/ call.duplicate))
          => (call.err # "none" /\ AddChildSent = {} /\ call.created = {})

\* an add with the name of the second of two items has read the children
\* and both names and raised, nothing was added
C24_Witness ==
    /\ call.op = "add_material"
    /\ call.duplicate
    /\ call.name = <<"b">>
    /\ call.err = "NotUnique"
    /\ call.n = 2
    /\ Len(transport) = 5
    /\ Cardinality(materials.items) = 2

\* the last operation ended when the command it posted last, cmd or one
\* that starts with it, was not answered with success
FailedAt(cmd) ==
    /\ outcome.err \in {"Transport", "Remote", "Internal"}
    /\ wire # <<>>
    /\ StartsWith(wire[Len(wire)], cmd)

\* C25: the client's view of the session agrees with the process after
\* every operation, including failing ones (a failed command having no
\* effect on the process, starting with no model open): if CLOSE_MODEL fails
\* inside close_model, open_file or new_model, the Concept still references
\* the old Model and that Model stays usable; if OPEN_FILE or NEW_MODEL
\* fails after the close succeeded, the Concept has no current Model.
C25_ViewAgreesWithProcess ==
    /\ (concept_model # 0) = process_model
    /\ \A m \in 1..MaxModels : (model_concept[m] = "bound") = (m = concept_model)
    /\ (outcome.op \in {"close_model", "open_file", "new_model"}
          /\ FailedAt(Tok(<<"CLOSE_MODEL">>)))
          => (concept_model # 0 /\ concept_model = outcome.before)
    /\ (outcome.op \in {"open_file", "new_model"}
          /\ (FailedAt(Tok(<<"OPEN_FILE">>)) \/ FailedAt(Tok(<<"NEW_MODEL">>))))
          => concept_model = 0

\* open_file with a Model open: the close succeeded, OPEN_FILE failed, and
\* neither the Concept nor the process has a model
C25_Witness ==
    /\ outcome.op = "open_file"
    /\ outcome.before # 0
    /\ Len(wire) = 2
    /\ FailedAt(Tok(<<"OPEN_FILE">>))
    /\ concept_model = 0
    /\ ~process_model
    /\ model_concept[outcome.before] = "closed"

\* C27: when bulk-add compensation runs (in _bulk_add or in
\* add_point_loads), a DELETE is sent for every entity the call created even
\* if one of the compensating deletes itself fails, and the error that
\* reaches the caller is the original creation or value-assignment error.
C27_CompensationDeletesAll ==
    (call.op = "add_point_loads" /\ call.pc = "done" /\ call.original # "none")
        => (call.created \subseteq DeleteSentFor /\ call.err = call.original)

\* ------------------------------------------------------------------------
\* LoadingType: the constructor and the two conversions (loading_layer.py)
\* ------------------------------------------------------------------------

\* the indices given to the constructor
IndexInputs == (0 - 1)..MaxIndex

\* a cause, is_transfer and an index, not yet given to the constructor
TypeInit ==
    /\ NoParser
    /\ NoClient
    /\ NoConcept
    /\ NoStartup
    /\ NoMaterials
    /\ \E cause \in CauseSet, is_transfer \in BOOLEAN, index \in IndexInputs :
          loading = [pc |-> "given", cause |-> cause, is_transfer |-> is_transfer,
                     index |-> index, err |-> "none", internal |-> <<>>,
                     back |-> [err |-> "none",
                               lt |-> [cause |-> "", is_transfer |-> FALSE, index |-> 0]]]

\* LoadingType(cause, is_transfer, index): the object exists unless the
\* constructor raises
ConstructType ==
    /\ loading.pc = "given"
    /\ LET e == loading_type_init(loading.cause, loading.is_transfer, loading.index)
       IN  loading' = [loading EXCEPT !.err = e,
                                      !.pc = IF e = "none" THEN "exists" ELSE "raised"]
    /\ UNCHANGED <<pvars, dvars, cvars, svars, mvars>>

\* _to_internal on the LoadingType
TypeToInternal ==
    /\ loading.pc = "exists"
    /\ loading' = [loading EXCEPT
                     !.internal = loading_type_to_internal(
                                     [cause |-> loading.cause,
                                      is_transfer |-> loading.is_transfer,
                                      index |-> loading.index]),
                     !.pc = "encoded"]
    /\ UNCHANGED <<pvars, dvars, cvars, svars, mvars>>

\* LoadingType._to_API on the string
TypeToAPI ==
    /\ loading.pc = "encoded"
    /\ loading' = [loading EXCEPT !.back = loading_type_to_API(loading.internal),
                                  !.pc = "decoded"]
    /\ UNCHANGED <<pvars, dvars, cvars, svars, mvars>>

TypeNext ==
    \/ ConstructType
    \/ TypeToInternal
    \/ TypeToAPI

TypeSpec == TypeInit /\ [][TypeNext]_vars

\* C28: for every valid LoadingType t (cause, is_transfer, index accepted by
\* the constructor), LoadingType._to_API(t._to_internal()) equals t,
\* including causes whose internal name is a prefix of another's ("other"
\* and "other_dead"); and every LoadingType that exists has index >= 0,
\* index > 0 exactly when its cause allows indexed variations, and
\* is_transfer only when its cause allows a transfer variation.
C28_LoadingTypeRoundTrip ==
    /\ loading.pc = "decoded" =>
          /\ loading.back.err = "none"
          /\ loading.back.lt = [cause |-> loading.cause,
                                is_transfer |-> loading.is_transfer,
                                index |-> loading.index]
    /\ loading.pc \in {"exists", "encoded", "decoded"} =>
          /\ loading.index >= 0
          /\ (loading.index > 0) = can_have_indexed_variations(loading.cause)
          /\ loading.is_transfer => can_have_transfer_variation(loading.cause)

\* the transfer variation of other_dead, whose name starts with that of
\* other, has come back from its string
C28_Witness ==
    /\ loading.pc = "decoded"
    /\ loading.cause = "other_dead"
    /\ loading.is_transfer
    /\ loading.internal = <<"other", "_dead", "_transfer">>
    /\ loading.back.lt.cause = "other_dead"

\* the characters of the first token of a success response
SUCCESS == SubSeq(SUCCESS_PREFIX, 2, 8)

\* text is a valid bracket string of two tokens, the first being SUCCESS
TwoTokenSuccess(text) ==
    /\ is_valid_parse_string(text)
    /\ Len(parse(text, TRUE).tokens) = 2
    /\ parse(text, TRUE).tokens[1] = SUCCESS

\* C29: the fixed-width slicing in Concept._command agrees with the bracket
\* tokenizer: for every response that is a valid two-token bracket string
\* whose first token is SUCCESS, the payload returned equals the second
\* token BracketParser.parse would extract, also when the payload itself
\* contains nested bracket tokens.
C29_SlicingAgreesWithTokenizer ==
    (outcome.op = "ping" /\ ~outcome.was_shut /\ outcome.response.kind = "text"
        /\ TwoTokenSuccess(outcome.response.text))
        => /\ outcome.err = "none"
           /\ outcome.result = parse(outcome.response.text, TRUE).tokens[2]

\* a ping was answered [SUCCESS][[1][2]] and returned [1][2]
C29_Witness ==
    /\ outcome.op = "ping"
    /\ ~outcome.was_shut
    /\ outcome.response = Success(Tok(<<"1">>) \o Tok(<<"2">>))
    /\ TwoTokenSuccess(outcome.response.text)
    /\ outcome.err = "none"
    /\ outcome.result = <<START_TAG, "1", END_TAG, START_TAG, "2", END_TAG>>

====
